---- MODULE Spec2Model ----
(***************************************************************************)
(* A TLA+ model of the hiPSC agent-based model: the spatial index and the  *)
(* graph-builder kernels, the contact-force and integration kernels, the   *)
(* diffusion solver (src/Model/backend.py) and the per-agent state machine *)
(* (src/Model/Cell.py, src/Model_StemCells.py).                            *)
(*                                                                         *)
(* Conventions.  Arrays are 0-based as in the source, except the three     *)
(* space axes, which are the tuple positions 1..3 (source axes 0..2).      *)
(* Lengths are integers in model units; a float comparison                 *)
(* norm(v) <= d is decided exactly on the squares.                         *)
(***************************************************************************)
EXTENDS Integers, Sequences, FiniteSets, TLC

VARIABLES
    \* ---- agent arrays shared by the kernels
    number_agents,   \* number of agents
    locations,       \* agent index -> <<x, y, z>>
    radii,           \* agent index -> radius
    size,            \* <<sx, sy, sz>>, the domain
    \* ---- spatial index (assign_bins / assign_bins_jit)
    bin_size,        \* the edge length of a bin (the caller's "distance")
    bin_locations,   \* agent index -> <<bx, by, bz>>
    bins,            \* flat slot address -> agent index (written slots only)
    bins_help,       \* flat bin index -> occupancy (touched bins only)
    max_cells,       \* per-bin capacity of the allocation
    slot_overflow,   \* history: a write at a slot position >= max_cells happened
    \* ---- graph builders (get_neighbors_cpu / jkr_neighbors_cpu)
    kernel,          \* "neighbors" or "jkr"
    distance,        \* the neighbor radius
    edge_holder,     \* flat edge index -> <<focus, current>>
    if_edge,         \* flat edge index -> 0 / 1
    edge_count,      \* agent index -> number of qualifying candidates
    max_neighbors,   \* per-agent edge capacity
    scanned,         \* the focus agents whose work item has run
    phase,           \* position of the index/graph pipeline
    \* ---- contact forces and integration (jkr_forces_*, apply_forces_*)
    backend,         \* "cpu" (prange) or "gpu" (one thread per work item)
    youngs,          \* Young's modulus
    poisson,         \* Poisson's ratio as <<numerator, denominator>>
    pi_adhesion,     \* math.pi * adhesion_const
    jkr_edges,       \* edge index -> <<cell_1, cell_2>>
    delete_edges,    \* edge index -> 0 / 1
    jkr_forces,      \* agent index -> <<fx, fy, fz>>, the force accumulator
    motility_force,  \* agent index -> <<fx, fy, fz>>
    item_pc,         \* edge index -> position of the edge's work item
    item_reg,        \* edge index -> the value its work item loaded last
    jkr_forces0,     \* history: the accumulators before the kernel started
    serial,          \* the work items of the edges run one after another
    item_added,      \* history: edge index -> what its work item added to
                     \* <<cell_1, cell_2>>, each as <<x, y, z>>
    first_forces,    \* the accumulators the run of the first backend produced
    first_delete,    \* the delete_edges the run of the first backend produced
    six_pi_viscosity,\* 6 * math.pi * viscosity
    move_dt,         \* the integration sub-step
    moved,           \* the agents whose apply_forces work item has run
    locations0,      \* history: the locations before apply_forces started
    \* ---- diffusion (update_diffusion_jit)
    base,            \* <<row, column>> -> concentration numerator, ghost border included
    base_den,        \* the common denominator of base
    steps,           \* number of sub-steps of the call
    step_i,          \* loop index i
    diffuse_a,       \* numerator of a = diffuse_dt * diffuse_const / spat_res2
    last_a,          \* numerator of a for the last sub-step (last_dt)
    total0,          \* history: the interior total before the call
    step_dt,         \* the duration of one simulation step
    diffuse_dt,      \* the stable sub-step of the diffusion
    last_dt,         \* the duration of the last sub-step
    dts,             \* history: the time increments of the iterations so far
    \* ---- agents as objects (Cell.py, Model_StemCells.py) and the step loop
    cells,           \* the agent list: index (from 1) -> agent record
    heap,            \* array id -> regulatory vector; agents hold array ids
    cells_to_add,    \* the addition queue: sequence of agent records
    cells_to_remove, \* the removal queue: sequence of indices into cells
    current_step,    \* the loop variable of Run.py
    dox_step,        \* the step at which the signalling pathway is induced
    stage,           \* the stage of the step the loop is in
    cell_i,          \* the index of the agent the stage has reached
    diffuse_values,  \* grid index -> signal amount
    sample,          \* divide(): the local variable location inside its loop
    guye_move,       \* parameter: directed motility
    num_neighbors,   \* agent index -> its degree in neighbor_graph
    network,         \* Model_StemCells: sim.network, a set of index pairs
    bounds_on,       \* Model_StemCells: len(sim.bounds) > 0
    \* ---- the registration interface of Simulation (parameters.py)
    number_cells,    \* the agent count
    cell_array_names,\* the names of the registered per-agent arrays, in order
    cell_types,      \* type name -> <<begin, end>>
    array_shape,     \* array name -> shape of the instance variable of that name
    graph_vertices,  \* graph name -> number of vertices
    setup_raised,    \* cell_arrays has raised its Exception
    \* ---- the step loop of Run.py, call by call
    end_step,        \* the last step of the run
    run_pc,          \* index into the loop body of the next call; 0 after the run
    trace,           \* history: the calls made so far in the current step
    \* ---- the graph builders, candidate by candidate
    scan_pos,        \* focus -> number of candidates its work item has visited
    cell_edge_count, \* focus -> the local counter of its work item
    \* ---- the nearest-agent search (nearest_cpu)
    if_diff,         \* agent index -> the agent is differentiated
    gata6,           \* agent index -> its GATA6 value
    nanog,           \* agent index -> its NANOG value
    nearest_gata6,   \* agent index -> nearest GATA6-high agent, or -1
    nearest_nanog,   \* agent index -> nearest NANOG-high agent, or -1
    nearest_diff     \* agent index -> nearest differentiated agent, or -1

agentVars == <<number_agents, locations, radii, size>>
binVars   == <<bin_size, bin_locations, bins, bins_help, max_cells, slot_overflow>>
edgeVars  == <<kernel, distance, edge_holder, if_edge, edge_count, max_neighbors,
               scanned, phase>>
forceVars == <<backend, youngs, poisson, pi_adhesion, jkr_edges, delete_edges,
               jkr_forces, motility_force, item_pc, item_reg, jkr_forces0,
               serial, item_added, first_forces, first_delete>>
integVars == <<six_pi_viscosity, move_dt, moved, locations0>>
diffVars  == <<base, base_den, steps, step_i, diffuse_a, last_a, total0,
               step_dt, diffuse_dt, last_dt, dts>>
cellVars  == <<cells, heap, cells_to_add, cells_to_remove, current_step, dox_step,
               stage, cell_i, diffuse_values, sample, guye_move, num_neighbors,
               network, bounds_on>>
setupVars == <<number_cells, cell_array_names, cell_types, array_shape,
               graph_vertices, setup_raised>>
runVars == <<end_step, run_pc, trace>>
scanVars == <<scan_pos, cell_edge_count>>
nearVars == <<if_diff, gata6, nanog, nearest_gata6, nearest_nanog, nearest_diff>>
vars == <<agentVars, binVars, edgeVars, forceVars, integVars, diffVars, cellVars,
          setupVars, runVars, scanVars, nearVars>>

\* what the actions of one part leave alone
notIndex == <<forceVars, integVars, diffVars, cellVars, setupVars, runVars,
             scanVars, nearVars>>
notForce == <<binVars, edgeVars, diffVars, cellVars, setupVars, runVars,
             scanVars, nearVars>>
notDiff  == <<agentVars, binVars, edgeVars, forceVars, integVars, cellVars, setupVars,
             runVars,
             scanVars, nearVars>>
notCell  == <<agentVars, binVars, edgeVars, forceVars, integVars, diffVars, setupVars,
             runVars,
             scanVars, nearVars>>
notSetup == <<agentVars, binVars, edgeVars, forceVars, integVars, diffVars, cellVars,
              runVars,
             scanVars, nearVars>>

\* the parts a specification does not run
AgentsIdle ==
    /\ number_agents = 0 /\ locations = <<>> /\ radii = <<>> /\ size = <<0, 0, 0>>
IndexIdle ==
    /\ bin_size = 0 /\ bin_locations = <<>> /\ bins = <<>> /\ bins_help = <<>>
    /\ max_cells = 0 /\ slot_overflow = FALSE
    /\ kernel = "none" /\ distance = 0 /\ edge_holder = <<>> /\ if_edge = <<>>
    /\ edge_count = <<>> /\ max_neighbors = 0 /\ scanned = {} /\ phase = "idle"
ForceIdle ==
    /\ backend = "none" /\ youngs = 0 /\ poisson = <<0, 1>> /\ pi_adhesion = 0
    /\ jkr_edges = <<>> /\ delete_edges = <<>> /\ jkr_forces = <<>>
    /\ motility_force = <<>> /\ item_pc = <<>> /\ item_reg = <<>> /\ jkr_forces0 = <<>>
    /\ serial = FALSE /\ item_added = <<>> /\ first_forces = <<>> /\ first_delete = <<>>
IntegIdle ==
    /\ six_pi_viscosity = 0 /\ move_dt = 0 /\ moved = {} /\ locations0 = <<>>
DiffIdle ==
    /\ base = <<>> /\ base_den = 1 /\ steps = 0 /\ step_i = 0
    /\ diffuse_a = 0 /\ last_a = 0 /\ total0 = 0
    /\ step_dt = 0 /\ diffuse_dt = 0 /\ last_dt = 0 /\ dts = <<>>
CellIdle ==
    /\ cells = <<>> /\ heap = <<>> /\ cells_to_add = <<>> /\ cells_to_remove = <<>>
    /\ current_step = 0 /\ dox_step = 0 /\ stage = "idle" /\ cell_i = 0
    /\ diffuse_values = <<>> /\ sample = <<>> /\ guye_move = FALSE
    /\ num_neighbors = <<>> /\ network = {}
    /\ bounds_on = FALSE

SetupIdle ==
    /\ number_cells = 0 /\ cell_array_names = <<>> /\ cell_types = <<>>
    /\ array_shape = <<>> /\ graph_vertices = <<>> /\ setup_raised = FALSE
RunIdle ==
    /\ end_step = 0 /\ run_pc = 0 /\ trace = <<>>
ScanIdle ==
    /\ scan_pos = <<>> /\ cell_edge_count = <<>>
NearIdle ==
    /\ if_diff = <<>> /\ gata6 = <<>> /\ nanog = <<>>
    /\ nearest_gata6 = <<>> /\ nearest_nanog = <<>> /\ nearest_diff = <<>>

Axes == 1..3

\* ---------------------------------------------------------------- bounds
\* The number of agents of the kernel specifications.
NumAgents == 3

Agents == 0..(number_agents - 1)

\* Agent positions the kernels are run on: same bin, face-adjacent, diagonal
\* and non-adjacent bins, on all three axes.
Positions ==
    { <<0,0,0>>, <<1,1,0>>, <<2,1,0>>, <<2,2,1>>, <<4,2,1>> }

\* ---------------------------------------------------------------- helpers
Max(a, b) == IF a >= b THEN a ELSE b
Min(a, b) == IF a <= b THEN a ELSE b

CeilDiv(a, b) == (a + b - 1) \div b

\* f with f[k] = v, the domain grown by k (a write to an array slot)
Store(f, k, v) == [x \in (DOMAIN f) \cup {k} |-> IF x = k THEN v ELSE f[x]]

RECURSIVE SetMax(_)
SetMax(S) ==
    IF S = {} THEN 0
    ELSE LET x == CHOOSE y \in S : TRUE
         IN Max(x, SetMax(S \ {x}))

\* squared euclidean distance of two locations
Dist2(p, q) ==
    (p[1] - q[1]) * (p[1] - q[1]) + (p[2] - q[2]) * (p[2] - q[2])
        + (p[3] - q[3]) * (p[3] - q[3])

\* ------------------------------------------------------- spatial index
\* the shape of bins_help: ceil(size / bin_size) + 3 per axis (one ghost layer
\* on each side of the domain)
BinsHelpSize(axis) == CeilDiv(size[axis], bin_size) + 3

NumBins == BinsHelpSize(1) * BinsHelpSize(2) * BinsHelpSize(3)

\* row-major (C order) index of a bin coordinate
BinIndex(b) == (b[1] * BinsHelpSize(2) + b[2]) * BinsHelpSize(3) + b[3]

\* floor(location / bin_size) + 1: the ghost layer shifts every bin by one
BinLocation(loc) == [a \in Axes |-> (loc[a] \div bin_size) + 1]

\* bins_help[b], zero where never touched (np.zeros)
HelpAt(help, b) == IF b \in DOMAIN help THEN help[b] ELSE 0

\* One iteration of assign_bins_jit's loop, for agent `index`, on an allocation
\* of `cap` slots per bin.  The store is unchecked: a place >= cap lands in the
\* slots of the next bin of the flat array, or beyond the array (wild).
AssignStep(st, index, bl, cap) ==
    LET b     == BinIndex(bl[index])
        place == HelpAt(st.bins_help, b)
        addr  == b * cap + place
    IN  [ bins      |-> IF addr < NumBins * cap
                        THEN Store(st.bins, addr, index) ELSE st.bins,
          bins_help |-> Store(st.bins_help, b, place + 1),
          overflow  |-> st.overflow \/ place >= cap,
          wild      |-> st.wild \/ addr >= NumBins * cap ]

\* assign_bins_jit: the loop over index = 0 .. n-1
RECURSIVE assign_bins_jit(_, _, _)
assign_bins_jit(n, bl, cap) ==
    IF n = 0
    THEN [bins |-> <<>>, bins_help |-> <<>>, overflow |-> FALSE, wild |-> FALSE]
    ELSE AssignStep(assign_bins_jit(n - 1, bl, cap), n - 1, bl, cap)

\* assign_bins: one pass of the caller's retry loop.  It allocates max_cells
\* slots per bin, bins every agent and accepts the build when no bin holds
\* more than max_cells agents; otherwise the capacity doubles and the build
\* is repeated.  On acceptance the edge buffers of the graph builder are
\* allocated (zeroed) for max_neighbors edges per agent.
ZeroEdges(cap) == [e \in 0..(number_agents * cap - 1) |-> <<0, 0>>]
ZeroFlags(cap) == [e \in 0..(number_agents * cap - 1) |-> 0]
ZeroCounts     == [i \in Agents |-> 0]

assign_bins ==
    /\ phase = "bin"
    /\ \E bl \in {[i \in Agents |-> BinLocation(locations[i])]} :
       \E r \in {assign_bins_jit(number_agents, bl, max_cells)} :
       \E new_max \in {SetMax({r.bins_help[b] : b \in DOMAIN r.bins_help})} :
           /\ bin_locations' = bl
           /\ bins' = r.bins
           /\ bins_help' = r.bins_help
           /\ slot_overflow' = (slot_overflow \/ r.overflow)
           /\ IF max_cells >= new_max
              THEN /\ phase' = "scan"
                   /\ max_cells' = max_cells
              ELSE /\ phase' = "bin"
                   /\ max_cells' = max_cells * 2
    /\ edge_holder' = ZeroEdges(max_neighbors)
    /\ if_edge' = ZeroFlags(max_neighbors)
    /\ edge_count' = ZeroCounts
    /\ scanned' = {}
    /\ UNCHANGED <<agentVars, bin_size, kernel, distance, max_neighbors, notIndex>>

\* ------------------------------------------------------ graph builders
\* the 27 bin offsets in the order of the three nested range(-1, 2) loops
Offsets ==
    [n \in 1..27 |-> << ((n - 1) \div 9) - 1,
                        (((n - 1) \div 3) % 3) - 1,
                        ((n - 1) % 3) - 1 >>]

\* the agents of bin b in slot order: bins[..][l] for l in range(bin_count)
BinContents(b) ==
    [l \in 1..HelpAt(bins_help, BinIndex(b)) |->
        bins[BinIndex(b) * max_cells + (l - 1)]]

\* the candidates of a focus agent in scan order
RECURSIVE ScanOrder(_, _)
ScanOrder(focus, n) ==
    IF n = 0 THEN <<>>
    ELSE ScanOrder(focus, n - 1)
           \o BinContents([a \in Axes |-> bin_locations[focus][a] + Offsets[n][a]])

Candidates(focus) == ScanOrder(focus, 27)

\* get_neighbors_cpu: norm(locations[current] - locations[focus]) <= distance
WithinDistanceStrict(focus, current) ==
    Dist2(locations[current], locations[focus]) < distance * distance

WithinDistance(focus, current) ==
    Dist2(locations[current], locations[focus]) <= distance * distance

\* a variant that also joins agents up to four units apart
OverlappingWithSlack(focus, current) ==
    (radii[current] + radii[focus] + 4) * (radii[current] + radii[focus] + 4)
        >= Dist2(locations[current], locations[focus])

\* jkr_neighbors_cpu: overlap = radii[current] + radii[focus] - mag >= 0
Overlapping(focus, current) ==
    (radii[current] + radii[focus]) * (radii[current] + radii[focus])
        >= Dist2(locations[current], locations[focus])

Qualifies(focus, current) ==
    IF kernel = "neighbors" THEN WithinDistance(focus, current)
    ELSE Overlapping(focus, current)

\* the body of the innermost loop for one candidate; st.count is
\* cell_edge_count.  A variant that counts only the edges it stored:
VisitCandidateStoredOnly(st, focus, current) ==
    IF Qualifies(focus, current) /\ focus < current /\ st.count < max_neighbors
    THEN [ edge_holder |-> [st.edge_holder EXCEPT
                               ![focus * max_neighbors + st.count] = <<focus, current>>],
           if_edge     |-> [st.if_edge EXCEPT
                               ![focus * max_neighbors + st.count] = 1],
           count       |-> st.count + 1 ]
    ELSE st

VisitCandidateUnchecked(st, focus, current) ==
    IF Qualifies(focus, current) /\ focus < current
    THEN [ edge_holder |-> [st.edge_holder EXCEPT
                               ![focus * max_neighbors + st.count] = <<focus, current>>],
           if_edge     |-> [st.if_edge EXCEPT
                               ![focus * max_neighbors + st.count] = 1],
           count       |-> st.count + 1 ]
    ELSE st

VisitCandidate(st, focus, current) ==
    IF Qualifies(focus, current) /\ focus < current
    THEN [ edge_holder |-> IF st.count < max_neighbors
                           THEN [st.edge_holder EXCEPT
                                   ![focus * max_neighbors + st.count] = <<focus, current>>]
                           ELSE st.edge_holder,
           if_edge     |-> IF st.count < max_neighbors
                           THEN [st.if_edge EXCEPT
                                   ![focus * max_neighbors + st.count] = 1]
                           ELSE st.if_edge,
           count       |-> st.count + 1 ]
    ELSE st

RECURSIVE ScanCandidates(_, _, _, _)
ScanCandidates(cands, n, focus, st) ==
    IF n = 0 THEN st
    ELSE VisitCandidate(ScanCandidates(cands, n - 1, focus, st), focus, cands[n])

\* one work item of the prange over focus agents
BuilderItem(focus) ==
    /\ phase = "scan"
    /\ focus \in Agents \ scanned
    /\ \E cands \in {Candidates(focus)} :
       \E r \in {ScanCandidates(cands, Len(cands), focus,
                     [edge_holder |-> edge_holder, if_edge |-> if_edge, count |-> 0])} :
           /\ edge_holder' = r.edge_holder
           /\ if_edge' = r.if_edge
           /\ edge_count' = [edge_count EXCEPT ![focus] = r.count]
    /\ scanned' = scanned \cup {focus}
    /\ UNCHANGED <<agentVars, binVars, kernel, distance, max_neighbors, phase, notIndex>>

get_neighbors_cpu(focus) == kernel = "neighbors" /\ BuilderItem(focus)

jkr_neighbors_cpu(focus) == kernel = "jkr" /\ BuilderItem(focus)

\* The callers of the two kernels: when every work item has run, the build is
\* accepted if no agent counted more than max_neighbors edges; otherwise the
\* capacity doubles and the whole pass is repeated on fresh buffers.
builder_check ==
    /\ phase = "scan"
    /\ scanned = Agents
    /\ IF SetMax({edge_count[i] : i \in Agents}) <= max_neighbors
       THEN /\ phase' = "built"
            /\ UNCHANGED <<edge_holder, if_edge, edge_count, max_neighbors, scanned>>
       ELSE /\ phase' = "scan"
            /\ max_neighbors' = max_neighbors * 2
            /\ edge_holder' = ZeroEdges(max_neighbors * 2)
            /\ if_edge' = ZeroFlags(max_neighbors * 2)
            /\ edge_count' = ZeroCounts
            /\ scanned' = {}
    /\ UNCHANGED <<agentVars, binVars, kernel, distance, notIndex>>

\* the inputs of the index and the graph builders
Radii == {1, 2}

NeighborInputs ==
    /\ number_agents = NumAgents
    /\ locations \in [0..(NumAgents - 1) -> Positions]
    /\ size = <<4, 2, 1>>
    /\ kernel \in {"neighbors", "jkr"}
    /\ IF kernel = "neighbors"
       THEN /\ radii = [i \in 0..(NumAgents - 1) |-> 1]
            /\ distance \in {1, 2}
            /\ bin_size \in distance..2
       ELSE /\ \E r \in Radii : radii = [i \in 0..(NumAgents - 1) |-> r]
            /\ distance = 0
            /\ bin_size = 2 * SetMax({radii[i] : i \in 0..(NumAgents - 1)})
    /\ max_cells = 1
    /\ max_neighbors = 1
    /\ bin_locations = <<>>
    /\ bins = <<>>
    /\ bins_help = <<>>
    /\ slot_overflow = FALSE
    /\ edge_holder = <<>>
    /\ if_edge = <<>>
    /\ edge_count = <<>>
    /\ scanned = {}
    /\ phase = "bin"
    /\ ForceIdle /\ IntegIdle /\ DiffIdle /\ CellIdle /\ SetupIdle
    /\ RunIdle /\ NearIdle

InitNeighbors == NeighborInputs /\ ScanIdle

NextNeighbors ==
    \/ assign_bins
    \/ \E focus \in Agents : get_neighbors_cpu(focus)
    \/ \E focus \in Agents : jkr_neighbors_cpu(focus)
    \/ builder_check

SpecNeighbors == InitNeighbors /\ [][NextNeighbors]_vars

\* The same kernels with the work items of the prange advancing one
\* candidate at a time, so that the items of different focus agents
\* interleave.  A step of the item of focus visits its next candidate
\* (lines 143-161, 252-276) or, after the last one, stores edge_count[focus]
\* (lines 164, 279) and ends, its locals gone.
BuilderStep(focus) ==
    /\ phase = "scan"
    /\ focus \in Agents \ scanned
    /\ \E cands \in {Candidates(focus)} :
          IF scan_pos[focus] < Len(cands)
          THEN \E r \in {VisitCandidate([edge_holder |-> edge_holder,
                                         if_edge |-> if_edge,
                                         count |-> cell_edge_count[focus]],
                                        focus, cands[scan_pos[focus] + 1])} :
                  /\ edge_holder' = r.edge_holder
                  /\ if_edge' = r.if_edge
                  /\ cell_edge_count' = [cell_edge_count EXCEPT ![focus] = r.count]
                  /\ scan_pos' = [scan_pos EXCEPT ![focus] = @ + 1]
                  /\ UNCHANGED <<edge_count, scanned>>
          ELSE /\ edge_count' = [edge_count EXCEPT ![focus] = cell_edge_count[focus]]
               /\ scanned' = scanned \cup {focus}
               /\ cell_edge_count' = [cell_edge_count EXCEPT ![focus] = 0]
               /\ scan_pos' = [scan_pos EXCEPT ![focus] = 0]
               /\ UNCHANGED <<edge_holder, if_edge>>
    /\ UNCHANGED <<agentVars, binVars, kernel, distance, max_neighbors, phase,
                   forceVars, integVars, diffVars, cellVars, setupVars, runVars,
                   nearVars>>

get_neighbors_step(focus) == kernel = "neighbors" /\ BuilderStep(focus)

jkr_neighbors_step(focus) == kernel = "jkr" /\ BuilderStep(focus)

\* the positions of the interleaved runs: agents that share a bin or sit in
\* adjacent bins, so that a focus agent has more candidates than capacity
StepPositions == { <<0,0,0>>, <<1,1,0>>, <<2,1,0>> }

InitNeighborSteps ==
    /\ NeighborInputs
    /\ locations \in [0..(NumAgents - 1) -> StepPositions]
    /\ scan_pos = [i \in 0..(NumAgents - 1) |-> 0]
    /\ cell_edge_count = [i \in 0..(NumAgents - 1) |-> 0]

NextNeighborSteps ==
    \/ assign_bins
    \/ \E focus \in Agents : get_neighbors_step(focus)
    \/ \E focus \in Agents : jkr_neighbors_step(focus)
    \/ builder_check

SpecNeighborSteps == InitNeighborSteps /\ [][NextNeighborSteps]_vars

\* ------------------------------------------------ nearest-agent search
\* nearest_cpu, one work item per focus agent.  Distances are compared as
\* squares: norm(a) <= d and norm(a) < norm(b) are the same comparisons as
\* those of the squares for non-negative values.
Categories == {"diff", "gata6", "nanog"}

\* a variant that takes GATA6 = NANOG for NANOG-high
CategoryOfTieNanog(current) ==
    IF if_diff[current] THEN "diff"
    ELSE IF gata6[current] > nanog[current] THEN "gata6"
    ELSE "nanog"

\* the branch of the if / elif / elif chain a candidate takes; none of them
\* when it is not differentiated and gata6[current] = nanog[current]
CategoryOf(current) ==
    IF if_diff[current] THEN "diff"
    ELSE IF gata6[current] > nanog[current] THEN "gata6"
    ELSE IF gata6[current] < nanog[current] THEN "nanog"
    ELSE "none"

\* the locals before the scan: every index -1, every distance distance * 2
NearestSeed ==
    [ index |-> [k \in Categories |-> -1],
      dist2 |-> [k \in Categories |-> (distance * 2) * (distance * 2)] ]

\* the body of the innermost loop for one candidate
NearestVisit(st, focus, current) ==
    LET mag2 == Dist2(locations[current], locations[focus])
        k    == CategoryOf(current)
    IN  IF mag2 <= distance * distance /\ focus # current
           /\ k \in Categories /\ mag2 < st.dist2[k]
        THEN [ index |-> [st.index EXCEPT ![k] = current],
               dist2 |-> [st.dist2 EXCEPT ![k] = mag2] ]
        ELSE st

RECURSIVE NearestScan(_, _, _, _)
NearestScan(cands, n, focus, st) ==
    IF n = 0 THEN st
    ELSE NearestVisit(NearestScan(cands, n - 1, focus, st), focus, cands[n])

\* one work item of the prange over focus agents
nearest_cpu(focus) ==
    /\ phase = "scan"
    /\ kernel = "nearest"
    /\ focus \in Agents \ scanned
    /\ \E cands \in {Candidates(focus)} :
       \E r \in {NearestScan(cands, Len(cands), focus, NearestSeed)} :
           /\ nearest_gata6' = [nearest_gata6 EXCEPT ![focus] = r.index["gata6"]]
           /\ nearest_nanog' = [nearest_nanog EXCEPT ![focus] = r.index["nanog"]]
           /\ nearest_diff' = [nearest_diff EXCEPT ![focus] = r.index["diff"]]
    /\ scanned' = scanned \cup {focus}
    /\ UNCHANGED <<agentVars, binVars, kernel, distance, edge_holder, if_edge,
                   edge_count, max_neighbors, phase, if_diff, gata6, nanog,
                   forceVars, integVars, diffVars, cellVars, setupVars, runVars,
                   scanVars>>

\* the inputs of the search: agents in one bin, in adjacent bins and out of
\* reach; every combination of the three categories and of the tie
NearPositions == { <<0,0,0>>, <<1,1,0>>, <<4,2,1>> }

\* <<if_diff, gata6, nanog>> of an agent: differentiated, GATA6-high,
\* NANOG-high and undecided
AgentKinds == { <<TRUE, 1, 0>>, <<FALSE, 1, 0>>, <<FALSE, 0, 1>>, <<FALSE, 1, 1>> }

InitNearest ==
    /\ number_agents = NumAgents
    /\ locations \in [0..(NumAgents - 1) -> NearPositions]
    /\ radii = [i \in 0..(NumAgents - 1) |-> 1]
    /\ size = <<4, 2, 1>>
    /\ kernel = "nearest"
    /\ distance \in {1, 2}
    /\ bin_size = distance
    /\ max_cells = 1
    /\ max_neighbors = 0
    /\ bin_locations = <<>>
    /\ bins = <<>>
    /\ bins_help = <<>>
    /\ slot_overflow = FALSE
    /\ edge_holder = <<>>
    /\ if_edge = <<>>
    /\ edge_count = <<>>
    /\ scanned = {}
    /\ phase = "bin"
    /\ \E kinds \in [0..(NumAgents - 1) -> AgentKinds] :
          /\ if_diff = [i \in 0..(NumAgents - 1) |-> kinds[i][1]]
          /\ gata6 = [i \in 0..(NumAgents - 1) |-> kinds[i][2]]
          /\ nanog = [i \in 0..(NumAgents - 1) |-> kinds[i][3]]
    /\ nearest_gata6 = [i \in 0..(NumAgents - 1) |-> 0]
    /\ nearest_nanog = [i \in 0..(NumAgents - 1) |-> 0]
    /\ nearest_diff = [i \in 0..(NumAgents - 1) |-> 0]
    /\ ForceIdle /\ IntegIdle /\ DiffIdle /\ CellIdle /\ SetupIdle
    /\ RunIdle /\ ScanIdle

NextNearest ==
    \/ assign_bins
    \/ \E focus \in Agents : nearest_cpu(focus)

SpecNearest == InitNearest /\ [][NextNearest]_vars

\* ------------------------------------------------------ contact forces
\* Fixed point: lengths are integers, forces integers in units of 10^-4, a
\* quotient the floats would round is rounded toward zero.
TruncDiv(a, b) == IF a >= 0 THEN a \div b ELSE -((-a) \div b)

ISqrt(n) == CHOOSE r \in 0..n : r * r <= n /\ n < (r + 1) * (r + 1)

ICbrt(n) == CHOOSE r \in 0..n : r * r * r <= n /\ n < (r + 1) * (r + 1) * (r + 1)

\* np.linalg.norm(vector) of the vector between two locations
Magnitude(p, q) == ISqrt(Dist2(p, q))

magnitudeNoRoot(vector_1, vector_2) ==
    (vector_1[1] - vector_2[1]) * (vector_1[1] - vector_2[1])
        + (vector_1[2] - vector_2[2]) * (vector_1[2] - vector_2[2])
        + (vector_1[3] - vector_2[3]) * (vector_1[3] - vector_2[3])

\* the device function magnitude: the loop over the axes, then total ** 0.5
magnitude(vector_1, vector_2) ==
    ISqrt( (vector_1[1] - vector_2[1]) * (vector_1[1] - vector_2[1])
             + (vector_1[2] - vector_2[2]) * (vector_1[2] - vector_2[2])
             + (vector_1[3] - vector_2[3]) * (vector_1[3] - vector_2[3]) )

\* mag, as the kernel of the backend computes it
Mag(c1, c2) ==
    IF backend = "gpu" THEN magnitude(locations[c1], locations[c2])
    ELSE Magnitude(locations[c1], locations[c2])

\* e_hat = (((1 - poisson ** 2) / youngs) + ((1 - poisson ** 2) / youngs)) ** -1,
\* as <<numerator, denominator>>
EHat ==
    << youngs * poisson[2] * poisson[2],
       2 * (poisson[2] * poisson[2] - poisson[1] * poisson[1]) >>

\* r_hat = ((1 / radii[cell_1]) + (1 / radii[cell_2])) ** -1, as a fraction
RHat(c1, c2) == << radii[c1] * radii[c2], radii[c1] + radii[c2] >>

\* overlap_ = (((math.pi * adhesion_const) / e_hat) ** (2 / 3)) * (r_hat ** (1 / 3))
OverlapScale(c1, c2) ==
    ICbrt( (pi_adhesion * pi_adhesion * EHat[2] * EHat[2] * RHat(c1, c2)[1])
              \div (EHat[1] * EHat[1] * RHat(c1, c2)[2]) )

\* overlap = radii[cell_1] + radii[cell_2] - mag
Overlap(c1, c2) == radii[c1] + radii[c2] - Mag(c1, c2)

BondedAtZero(c1, c2) == Overlap(c1, c2) > 0

\* d > -0.360562 with d = overlap / overlap_
Bonded(c1, c2) == Overlap(c1, c2) * 1000000 > (-360562) * OverlapScale(c1, c2)

\* f = (-0.0204 * d ** 3) + (0.4942 * d ** 2) + (1.0801 * d) - 1.324 in units
\* of 10^-4, for d = dn / dd
PolyF(dn, dd) ==
    TruncDiv( (-204) * dn * dn * dn + 4942 * dn * dn * dd
                  + 10801 * dn * dd * dd - 13240 * dd * dd * dd,
              dd * dd * dd )

\* jkr_force = f * math.pi * adhesion_const * r_hat
JkrForce(c1, c2) ==
    TruncDiv( PolyF(Overlap(c1, c2), OverlapScale(c1, c2)) * pi_adhesion
                  * RHat(c1, c2)[1],
              RHat(c1, c2)[2] )

\* jkr_force * normal on one axis; the zero vector when the centres coincide
Contribution(c1, c2, axis) ==
    LET mag == Mag(c1, c2)
    IN  IF mag # 0
        THEN TruncDiv(JkrForce(c1, c2) * (locations[c1][axis] - locations[c2][axis]), mag)
        ELSE 0

Edges == 0..(Len(jkr_edges) - 1)
Cell1(e) == jkr_edges[e + 1][1]
Cell2(e) == jkr_edges[e + 1][2]

TargetsCpuSameSign(e) ==
    << <<Cell1(e), 1, 1>>, <<Cell1(e), 2, 1>>, <<Cell1(e), 3, 1>>,
       <<Cell2(e), 1, 1>>, <<Cell2(e), 2, 1>>, <<Cell2(e), 3, 1>> >>

\* The read-modify-write targets of an edge's work item, in program order, as
\* <<cell, axis, sign>>.  The fallback adds the whole vector to cell_1 and then
\* subtracts it from cell_2; the accelerated kernel alternates per axis.
TargetsCpu(e) ==
    << <<Cell1(e), 1, 1>>, <<Cell1(e), 2, 1>>, <<Cell1(e), 3, 1>>,
       <<Cell2(e), 1, -1>>, <<Cell2(e), 2, -1>>, <<Cell2(e), 3, -1>> >>

TargetsGpu(e) ==
    << <<Cell1(e), 1, 1>>, <<Cell2(e), 1, -1>>, <<Cell1(e), 2, 1>>,
       <<Cell2(e), 2, -1>>, <<Cell1(e), 3, 1>>, <<Cell2(e), 3, -1>> >>

Targets(e) == IF backend = "cpu" THEN TargetsCpu(e) ELSE TargetsGpu(e)

\* item_pc of a finished work item: six loads and six stores
ItemDone == 12

\* One step of the work item of edge e.  jkr_forces[cell] += x is a load of
\* the element followed by a store; nothing orders the loads and stores of
\* different work items (no atomic, no lock, no reduction).
ForceItemStep(e) ==
    /\ e \in Edges
    /\ item_pc[e] < ItemDone
    /\ serial => \A e2 \in Edges \ {e} : item_pc[e2] \in {0, ItemDone}
    /\ IF item_pc[e] = 0 /\ ~Bonded(Cell1(e), Cell2(e))
       THEN \* the bond is broken: mark the edge, touch no accumulator
            /\ delete_edges' = [delete_edges EXCEPT ![e] = 1]
            /\ item_pc' = [item_pc EXCEPT ![e] = ItemDone]
            /\ UNCHANGED <<jkr_forces, item_reg, item_added>>
       ELSE \E t \in {Targets(e)[(item_pc[e] \div 2) + 1]} :
            IF item_pc[e] % 2 = 0
            THEN \* load
                 /\ item_reg' = [item_reg EXCEPT ![e] = jkr_forces[t[1]][t[2]]]
                 /\ item_pc' = [item_pc EXCEPT ![e] = @ + 1]
                 /\ UNCHANGED <<jkr_forces, delete_edges, item_added>>
            ELSE \* store
                 \E x \in {t[3] * Contribution(Cell1(e), Cell2(e), t[2])} :
                 /\ jkr_forces' = [jkr_forces EXCEPT ![t[1]][t[2]] = item_reg[e] + x]
                 /\ item_added' = [item_added EXCEPT
                        ![e][IF t[3] = 1 THEN 1 ELSE 2][t[2]] = @ + x]
                 /\ item_pc' = [item_pc EXCEPT ![e] = @ + 1]
                 /\ UNCHANGED <<item_reg, delete_edges>>
    /\ UNCHANGED <<agentVars, backend, youngs, poisson, pi_adhesion, jkr_edges,
                   motility_force, jkr_forces0, serial, first_forces, first_delete,
                   integVars, notForce>>

jkr_forces_cpu(e) == backend = "cpu" /\ ForceItemStep(e)

jkr_forces_gpu(e) == backend = "gpu" /\ ForceItemStep(e)

\* the inputs of the force kernels
ForcePositions == { <<0,0,0>>, <<24,0,0>>, <<18,24,0>>, <<0,0,33>>, <<0,0,35>> }

EdgeLists ==
    { << <<0,1>> >>, << <<0,1>>, <<0,2>> >>, << <<0,1>>, <<1,2>> >> }

NothingAdded == << <<0, 0, 0>>, <<0, 0, 0>> >>

ZeroVectors == [i \in 0..(NumAgents - 1) |-> <<0, 0, 0>>]

InitForces ==
    /\ number_agents = NumAgents
    /\ locations \in [0..(NumAgents - 1) -> ForcePositions]
    /\ radii = [i \in 0..(NumAgents - 1) |-> 16]
    /\ size = <<64, 64, 64>>
    /\ backend \in {"cpu", "gpu"}
    /\ youngs = 3
    /\ poisson = <<1, 2>>
    /\ pi_adhesion = 16
    /\ jkr_edges \in EdgeLists
    /\ delete_edges = [e \in 0..(Len(jkr_edges) - 1) |-> 0]
    /\ jkr_forces = ZeroVectors
    /\ jkr_forces0 = ZeroVectors
    /\ motility_force = ZeroVectors
    /\ item_pc = [e \in 0..(Len(jkr_edges) - 1) |-> 0]
    /\ item_reg = [e \in 0..(Len(jkr_edges) - 1) |-> 0]
    /\ item_added = [e \in 0..(Len(jkr_edges) - 1) |-> NothingAdded]
    /\ serial = FALSE /\ first_forces = <<>> /\ first_delete = <<>>
    /\ IndexIdle /\ IntegIdle /\ DiffIdle /\ CellIdle /\ SetupIdle
    /\ RunIdle /\ ScanIdle /\ NearIdle

NextForces ==
    \/ \E e \in Edges : jkr_forces_cpu(e)
    \/ \E e \in Edges : jkr_forces_gpu(e)

SpecForces == InitForces /\ [][NextForces]_vars

\* The adhesion graph from creation to the force law: jkr_neighbors_cpu
\* builds the edges, the edges it stored become the edge list of the graph,
\* and jkr_forces_cpu runs on that list with the agents where they were.
RECURSIVE StoredEdges(_)
StoredEdges(n) ==
    IF n = 0 THEN <<>>
    ELSE StoredEdges(n - 1)
           \o (IF if_edge[n - 1] = 1 THEN <<edge_holder[n - 1]>> ELSE <<>>)

\* the caller of the force kernel: the edge list of the graph, fresh
\* delete_edges, one work item per edge
jkr_forces_start ==
    /\ phase = "built"
    /\ kernel = "jkr"
    /\ backend = "cpu"
    /\ \E es \in {StoredEdges(number_agents * max_neighbors)} :
          /\ jkr_edges' = es
          /\ delete_edges' = [e \in 0..(Len(es) - 1) |-> 0]
          /\ item_pc' = [e \in 0..(Len(es) - 1) |-> 0]
          /\ item_reg' = [e \in 0..(Len(es) - 1) |-> 0]
          /\ item_added' = [e \in 0..(Len(es) - 1) |-> NothingAdded]
    /\ phase' = "forces"
    /\ UNCHANGED <<agentVars, binVars, kernel, distance, edge_holder, if_edge,
                   edge_count, max_neighbors, scanned, backend, youngs, poisson,
                   pi_adhesion, jkr_forces, motility_force, jkr_forces0, serial,
                   first_forces, first_delete, integVars, diffVars, cellVars,
                   setupVars, runVars, scanVars, nearVars>>

\* agents that overlap, touch (centres 32 apart for radii 16), sit at a
\* distance that is not a whole number, or are out of reach
BondPositions == { <<0,0,0>>, <<24,0,0>>, <<32,0,0>>, <<18,24,0>>, <<0,0,35>> }

InitBond ==
    /\ number_agents = NumAgents
    /\ locations \in [0..(NumAgents - 1) -> BondPositions]
    /\ radii = [i \in 0..(NumAgents - 1) |-> 16]
    /\ size = <<64, 64, 64>>
    /\ kernel = "jkr"
    /\ distance = 0
    /\ bin_size = 2 * SetMax({radii[i] : i \in 0..(NumAgents - 1)})
    /\ max_cells = 1
    /\ max_neighbors = 1
    /\ bin_locations = <<>> /\ bins = <<>> /\ bins_help = <<>>
    /\ slot_overflow = FALSE
    /\ edge_holder = <<>> /\ if_edge = <<>> /\ edge_count = <<>>
    /\ scanned = {}
    /\ phase = "bin"
    /\ backend = "cpu"
    /\ youngs = 3
    /\ poisson = <<1, 2>>
    /\ pi_adhesion = 16
    /\ jkr_edges = <<>> /\ delete_edges = <<>>
    /\ jkr_forces = ZeroVectors
    /\ jkr_forces0 = ZeroVectors
    /\ motility_force = ZeroVectors
    /\ item_pc = <<>> /\ item_reg = <<>> /\ item_added = <<>>
    /\ serial = TRUE /\ first_forces = <<>> /\ first_delete = <<>>
    /\ IntegIdle /\ DiffIdle /\ CellIdle /\ SetupIdle
    /\ RunIdle /\ ScanIdle /\ NearIdle

NextBond ==
    \/ assign_bins
    \/ \E focus \in Agents : jkr_neighbors_cpu(focus)
    \/ builder_check
    \/ jkr_forces_start
    \/ \E e \in Edges : jkr_forces_cpu(e)

SpecBond == InitBond /\ [][NextBond]_vars

\* The two kernels on the same inputs, the work items of each run one after
\* another: once the kernel of one backend has finished, its outputs are kept
\* and the kernel of the other backend runs on the inputs of the first.
run_other_kernel ==
    /\ serial
    /\ first_forces = <<>>
    /\ \A e \in Edges : item_pc[e] = ItemDone
    /\ first_forces' = jkr_forces
    /\ first_delete' = delete_edges
    /\ backend' = IF backend = "cpu" THEN "gpu" ELSE "cpu"
    /\ jkr_forces' = jkr_forces0
    /\ delete_edges' = [e \in Edges |-> 0]
    /\ item_pc' = [e \in Edges |-> 0]
    /\ item_reg' = [e \in Edges |-> 0]
    /\ item_added' = [e \in Edges |-> NothingAdded]
    /\ UNCHANGED <<agentVars, youngs, poisson, pi_adhesion, jkr_edges, motility_force,
                   jkr_forces0, serial, integVars, notForce>>

InitForcesSerial ==
    /\ number_agents = NumAgents
    /\ locations \in [0..(NumAgents - 1) -> ForcePositions]
    /\ radii = [i \in 0..(NumAgents - 1) |-> 16]
    /\ size = <<64, 64, 64>>
    /\ backend \in {"cpu", "gpu"}
    /\ youngs = 3
    /\ poisson = <<1, 2>>
    /\ pi_adhesion = 16
    /\ jkr_edges \in EdgeLists
    /\ delete_edges = [e \in 0..(Len(jkr_edges) - 1) |-> 0]
    /\ jkr_forces = ZeroVectors
    /\ jkr_forces0 = ZeroVectors
    /\ motility_force = ZeroVectors
    /\ item_pc = [e \in 0..(Len(jkr_edges) - 1) |-> 0]
    /\ item_reg = [e \in 0..(Len(jkr_edges) - 1) |-> 0]
    /\ item_added = [e \in 0..(Len(jkr_edges) - 1) |-> NothingAdded]
    /\ serial = TRUE /\ first_forces = <<>> /\ first_delete = <<>>
    /\ IndexIdle /\ IntegIdle /\ DiffIdle /\ CellIdle /\ SetupIdle /\ RunIdle /\ ScanIdle /\ NearIdle

NextForcesSerial ==
    \/ \E e \in Edges : jkr_forces_cpu(e)
    \/ \E e \in Edges : jkr_forces_gpu(e)
    \/ run_other_kernel

SpecForcesSerial == InitForcesSerial /\ [][NextForcesSerial]_vars

\* --------------------------------------------------------- integration
\* stokes_friction = 6 * math.pi * viscosity * radii[i]
StokesFriction(i) == six_pi_viscosity * radii[i]

NewLocationBackward(loc, i, axis) ==
    loc[i][axis]
        - TruncDiv((jkr_forces[i][axis] + motility_force[i][axis]) * move_dt,
                   StokesFriction(i))

\* new_location = locations + velocity * move_dt on one axis, with
\* velocity = (jkr_force + motility_force) / stokes_friction
NewLocation(loc, i, axis) ==
    loc[i][axis]
        + TruncDiv((jkr_forces[i][axis] + motility_force[i][axis]) * move_dt,
                   StokesFriction(i))

ClampUpperOnly(new, axis) == IF new > size[axis] THEN size[axis] ELSE new

\* if new > size: size  elif new < 0: 0  else: new
Clamp(new, axis) ==
    IF new > size[axis] THEN size[axis]
    ELSE IF new < 0 THEN 0
    ELSE new

\* the work item of agent i: all three axes
ApplyItem(i) ==
    /\ i \in Agents \ moved
    /\ locations' = [locations EXCEPT ![i] =
            [axis \in Axes |-> Clamp(NewLocation(locations, i, axis), axis)]]
    /\ moved' = moved \cup {i}
    /\ UNCHANGED <<number_agents, radii, size, forceVars, six_pi_viscosity,
                   move_dt, locations0, notForce>>

apply_forces_cpu(i) == backend = "cpu" /\ ApplyItem(i)

apply_forces_gpu(i) == backend = "gpu" /\ ApplyItem(i)

\* the inputs of the integration kernels
MovePositions == { <<1, 3, 5>>, <<0, 6, 3>> }

MoveForces == { <<0, 0, 0>>, <<-4, 1, 4>>, <<8, -8, 2>> }

InitIntegrate ==
    /\ number_agents = NumAgents
    /\ locations \in [0..(NumAgents - 1) -> MovePositions]
    /\ locations0 = locations
    /\ radii = [i \in 0..(NumAgents - 1) |-> 1 + (i % 2)]
    /\ size = <<6, 6, 6>>
    /\ backend \in {"cpu", "gpu"}
    /\ youngs = 0 /\ poisson = <<0, 1>> /\ pi_adhesion = 0
    /\ jkr_edges = <<>> /\ delete_edges = <<>> /\ item_pc = <<>> /\ item_reg = <<>>
    /\ serial = FALSE /\ item_added = <<>> /\ first_forces = <<>> /\ first_delete = <<>>
    /\ jkr_forces \in [0..(NumAgents - 1) -> MoveForces]
    /\ jkr_forces0 = jkr_forces
    /\ motility_force = [i \in 0..(NumAgents - 1) |-> <<1, 0, -1>>]
    /\ six_pi_viscosity \in {1, 3}
    /\ move_dt \in {1, 2}
    /\ moved = {}
    /\ IndexIdle /\ DiffIdle /\ CellIdle /\ SetupIdle
    /\ RunIdle /\ ScanIdle /\ NearIdle

NextIntegrate ==
    \/ \E i \in Agents : apply_forces_cpu(i)
    \/ \E i \in Agents : apply_forces_gpu(i)

SpecIntegrate == InitIntegrate /\ [][NextIntegrate]_vars

\* --------------------------------------- one force and integration cycle
\* Two agents joined by one adhesion edge, no motility force, accumulators
\* zeroed: the contact-force kernel runs, then the integration kernel.
CyclePositions ==
    { <<0,0,0>>, <<10,0,0>>, <<24,0,0>>, <<18,24,0>>, <<0,0,33>>, <<40,40,40>> }

InitCycle ==
    /\ number_agents = 2
    /\ locations \in [0..1 -> CyclePositions]
    /\ locations0 = locations
    /\ radii = [i \in 0..1 |-> 16]
    /\ size = <<64, 64, 64>>
    /\ backend \in {"cpu", "gpu"}
    /\ youngs = 3
    /\ poisson = <<1, 2>>
    /\ pi_adhesion = 16
    /\ jkr_edges = << <<0, 1>> >>
    /\ delete_edges = [e \in {0} |-> 0]
    /\ jkr_forces = [i \in 0..1 |-> <<0, 0, 0>>]
    /\ jkr_forces0 = jkr_forces
    /\ motility_force = [i \in 0..1 |-> <<0, 0, 0>>]
    /\ item_pc = [e \in {0} |-> 0]
    /\ item_reg = [e \in {0} |-> 0]
    /\ item_added = [e \in {0} |-> NothingAdded]
    /\ serial = FALSE /\ first_forces = <<>> /\ first_delete = <<>>
    /\ six_pi_viscosity \in {6000, 60000}
    /\ move_dt = 1
    /\ moved = {}
    /\ IndexIdle /\ DiffIdle /\ CellIdle /\ SetupIdle /\ RunIdle /\ ScanIdle /\ NearIdle

\* the integration kernel is called after the contact-force kernel has returned
NextCycle ==
    \/ \E e \in Edges : jkr_forces_cpu(e)
    \/ \E e \in Edges : jkr_forces_gpu(e)
    \/ \E i \in Agents : (\A e \in Edges : item_pc[e] = ItemDone) /\ apply_forces_cpu(i)
    \/ \E i \in Agents : (\A e \in Edges : item_pc[e] = ItemDone) /\ apply_forces_gpu(i)

SpecCycle == InitCycle /\ [][NextCycle]_vars

\* ------------------------------------------------------------ diffusion
\* The field is held exactly: base[r, c] is a numerator over the common
\* denominator base_den, and a = diffuse_dt * diffuse_const / spat_res2 is
\* diffuse_a / ADen.
GridRows == 2
GridCols == 2
MaxSteps == 3
ADen == 8

LastRow == GridRows + 1
LastCol == GridCols + 1
GridCells == (0..LastRow) \X (0..LastCol)
InteriorCells == (1..GridRows) \X (1..GridCols)

\* base[:, 0] = base[:, 1]; base[:, -1] = base[:, -2];
\* base[0, :] = base[1, :]; base[-1, :] = base[-2, :]   (in this order)
ReflectColumns(g) ==
    [p \in GridCells |->
        IF p[2] = 0 THEN g[<<p[1], 1>>]
        ELSE IF p[2] = LastCol THEN g[<<p[1], LastCol - 1>>]
        ELSE g[p]]

ReflectRows(g) ==
    [p \in GridCells |->
        IF p[1] = 0 THEN g[<<1, p[2]>>]
        ELSE IF p[1] = LastRow THEN g[<<LastRow - 1, p[2]>>]
        ELSE g[p]]

KeepEdges(g) == g

ReflectEdges(g) == ReflectRows(ReflectColumns(g))

\* temp = a * (base[2:, 1:-1] + base[:-2, 1:-1] + base[1:-1, 2:] + base[1:-1, :-2]);
\* base[1:-1, 1:-1] *= b; base[1:-1, 1:-1] += temp, with b = 1 - 4 * a.
\* Every numerator is brought to the denominator base_den * ADen.
Stencil(g, an) ==
    [p \in GridCells |->
        IF p \in InteriorCells
        THEN (ADen - 4 * an) * g[p]
             + an * (g[<<p[1] + 1, p[2]>>] + g[<<p[1] - 1, p[2]>>]
                     + g[<<p[1], p[2] + 1>>] + g[<<p[1], p[2] - 1>>])
        ELSE ADen * g[p]]

SubStepDtNoLast(i) == diffuse_dt

\* the time increment of iteration i: last_dt on the last one (i == steps - 1)
SubStepDt(i) == IF i = steps - 1 THEN last_dt ELSE diffuse_dt

\* one iteration of the loop of update_diffusion_jit
update_diffusion_jit ==
    /\ step_i < steps
    /\ \E an \in {IF step_i = steps - 1 THEN last_a ELSE diffuse_a} :
           base' = Stencil(ReflectEdges(base), an)
    /\ base_den' = base_den * ADen
    /\ step_i' = step_i + 1
    /\ dts' = Append(dts, SubStepDt(step_i))
    /\ UNCHANGED <<steps, diffuse_a, last_a, total0, step_dt, diffuse_dt, last_dt,
                   notDiff>>

RECURSIVE SumOver(_, _)
SumOver(g, ps) ==
    IF ps = {} THEN 0
    ELSE LET p == CHOOSE q \in ps : TRUE
         IN  g[p] + SumOver(g, ps \ {p})

\* the total of the region the function returns, base[1:-1, 1:-1]
InteriorTotal(g) == SumOver(g, InteriorCells)

InitDiffusion ==
    /\ \E interior \in [InteriorCells -> {0, 3}] : \E edge \in {0, 1} :
           base = [p \in GridCells |->
                      IF p \in InteriorCells THEN interior[p] ELSE edge]
    /\ base_den = 1
    /\ total0 = InteriorTotal(base)
    /\ steps \in 1..MaxSteps
    /\ step_i = 0
    /\ diffuse_a \in {1, 2, 3}
    /\ last_a \in {0, 1}
    /\ step_dt = 0 /\ diffuse_dt = diffuse_a /\ last_dt = last_a /\ dts = <<>>
    /\ AgentsIdle /\ IndexIdle /\ ForceIdle /\ IntegIdle /\ CellIdle /\ SetupIdle
    /\ RunIdle /\ ScanIdle /\ NearIdle

NextDiffusion == update_diffusion_jit

SpecDiffusion == InitDiffusion /\ [][NextDiffusion]_vars

\* One macro step of the diffusion: the caller of update_diffusion_jit runs
\* the whole sub-steps that fit in step_dt and one more with the remainder.
\* Time is in units of the smallest sub-step; a is dt / ADen.
MaxStepDt == 5
MaxDiffuseDt == 2

StepsFor(macro, sub) == (macro \div sub) + 1

LastDtFor(macro, sub) == macro - (macro \div sub) * sub

InitMacroStep ==
    /\ \E interior \in [InteriorCells -> {0, 3}] : \E edge \in {0, 1} :
           base = [p \in GridCells |->
                      IF p \in InteriorCells THEN interior[p] ELSE edge]
    /\ base_den = 1
    /\ total0 = InteriorTotal(base)
    /\ step_dt \in 1..MaxStepDt
    /\ diffuse_dt \in 1..MaxDiffuseDt
    /\ steps = StepsFor(step_dt, diffuse_dt)
    /\ last_dt = LastDtFor(step_dt, diffuse_dt)
    /\ diffuse_a = diffuse_dt
    /\ last_a = last_dt
    /\ step_i = 0
    /\ dts = <<>>
    /\ AgentsIdle /\ IndexIdle /\ ForceIdle /\ IntegIdle /\ CellIdle /\ SetupIdle
    /\ RunIdle /\ ScanIdle /\ NearIdle

SpecMacroStep == InitMacroStep /\ [][NextDiffusion]_vars

\* ------------------------------------------------- agents: Cell.py
\* An agent is a record of the fields of Cell.  booleans is the id of a numpy
\* array in heap, because the constructor stores the reference it is given.
\* div_counter is <<n, k>> for the value n / 2^k, so that *= 0.5 is exact.
\* Fields h_* are history and are read by no action.
pluri_to_diff == 2
pluri_div_thresh == 2
diff_div_thresh == 3
EndStep == 4
MaxCellCount == 2

\* parameters of the template files, scaled to the model
boolean_thresh == 2
num_states == 2
lonely_cell == 1
death_thresh == 2
diff_surround == 2
contact_inhibit == 2
maximum == 1
dx == 8

NeighborCounts == {0, 2}

Half(c) == IF c[1] % 2 = 0 THEN <<c[1] \div 2, c[2]>> ELSE <<c[1], c[2] + 1>>
PlusOne(c) == <<c[1] + 2 ^ c[2], c[2]>>
AtLeast(c, n) == c[1] >= n * (2 ^ c[2])

\* booleans[k] of an agent, k counted from 0 as in the source
Bool(c, h, k) == h[c.booleans][k + 1]

\* the rules of Model_Setup.py on x1..x5
Rule1(x) == x[5]
Rule2(x) == x[1] * x[4]
Rule3(x) == x[2]
Rule4(x) == x[5] + 1
Rule5(x) == (x[3] + 1) * (x[4] + 1)

\* Cell.boolean_function: the array it stores; its return value is entry 0
BooleanFunction(b, fgf4_bool) ==
    LET x == <<fgf4_bool, b[1], b[2], b[3], b[4]>>
    IN  << Rule1(x) % num_states, Rule2(x) % num_states, Rule3(x) % num_states,
           Rule4(x) % num_states, Rule5(x) % num_states >>

\* ids of the arrays some agent of the sequences refers to
RefsOf(cs) == { cs[k].booleans : k \in 1..Len(cs) }

\* a variant that hands out an array some agent already refers to
FreshIdShared(used) == IF used = {} THEN 1 ELSE CHOOSE id \in used : TRUE

\* np.array(...) allocates: the smallest id no agent refers to
FreshId(used) == CHOOSE id \in 1..(Cardinality(used) + 1) :
                    id \notin used /\ \A j \in 1..(id - 1) : j \in used

\* arrays no agent refers to are dropped
Collect(h, cs, q) == [id \in RefsOf(cs) \cup RefsOf(q) |-> h[id]]

\* index_x = math.ceil((location // (x_step / 2)) / 2)
GridIndex(x) == ((x \div (dx \div 2)) + 1) \div 2
GridPoint(loc) == <<GridIndex(loc[1]), GridIndex(loc[2]), GridIndex(loc[3])>>

DifferentiateStill(c) == [c EXCEPT !.state = "Differentiated"]

\* Cell.differentiate
Differentiate(c) == [c EXCEPT !.state = "Differentiated", !.motion = TRUE]
DifferentiateArray(b) == [b EXCEPT ![3] = 1, ![4] = 0]

RaisedUnbounded(v, b) == IF b[4] = 1 THEN v + 1 ELSE v

\* update_cell, lines 211-213: the grid value after the agent's production
Raised(v, b) == IF v < maximum /\ b[4] = 1 THEN v + 1 ELSE v

\* update_cell, lines 195-241: the signalling pathway of agent c with array b,
\* reading the value v from the grid.  The result is the agent, its array and its grid value.
\* fresh tells whether boolean_function stored a new array.
Pathway(c, b, v) ==
    LET v1  == Raised(v, b)
        fgf4_bool == IF v1 > 0 THEN 1 ELSE 0
        tempFGFR == b[1]
        eval == c.boolean_counter % boolean_thresh = 0
        b1  == IF eval THEN BooleanFunction(b, fgf4_bool) ELSE b
        fgf4 == IF eval THEN b1[1] ELSE fgf4_bool
        v2  == IF tempFGFR = 0 /\ fgf4 = 1 /\ v1 >= 1 THEN v1 - 1 ELSE v1
        count == b1[3] = 1 /\ c.state = "Pluripotent"
        c1  == IF count THEN [c EXCEPT !.diff_counter = @ + 1] ELSE c
        diff == count /\ c1.diff_counter >= pluri_to_diff
    IN  [ cell  |-> IF diff THEN Differentiate(c1) ELSE c1,
          array |-> IF diff THEN DifferentiateArray(b1) ELSE b1,
          fresh |-> eval,
          value |-> v2 ]

\* random_point(simulation) * 5 for the sampled angles: 2D when size[2] = 0
Directions2D ==
    { <<5, 0, 0>>, <<-5, 0, 0>>, <<0, 5, 0>>, <<0, -5, 0>>, <<3, 4, 0>>, <<-4, -3, 0>> }

Directions3D ==
    Directions2D \cup { <<0, 0, 5>>, <<0, 0, -5>>, <<0, 3, 4>> }

random_point == IF size[3] = 0 THEN Directions2D ELSE Directions3D

\* location = self.location + random_point(simulation) * self.radius
Samples(c) ==
    { [a \in Axes |-> c.location[a] + (d[a] * c.radius) \div 5] : d \in random_point }

InBoundsX(loc) == 0 <= loc[1] /\ loc[1] <= size[1]

\* condition_x and condition_y and condition_z
InBounds(loc) == \A a \in Axes : 0 <= loc[a] /\ loc[a] <= size[a]

\* history bookkeeping, applied to the agent lists at the end of every action
TrackAll(cs, h) ==
    [k \in 1..Len(cs) |->
        [cs[k] EXCEPT !.h_tracked = @ /\ h[cs[k].booleans][3] = 1,
                      !.h_was_diff = @ \/ cs[k].state = "Differentiated"]]

\* the stages of one step, in the order of the loop body of Run.py
NextStage(st) ==
    CASE st = "neighbors" -> "death"
      [] st = "death"     -> "surround"
      [] st = "surround"  -> "motility"
      [] st = "motility"  -> "update"
      [] st = "update"    -> "queue"

\* for cell in cells: ... -- the loop moves to the next agent or the stage ends
StageAfter == IF cell_i < Len(cells) THEN stage ELSE NextStage(stage)
IndexAfter == IF cell_i < Len(cells) THEN cell_i + 1 ELSE 1

AtCell(st) == stage = st /\ cell_i \in 1..Len(cells)

\* check_neighbors: rebuilds neighbor_graph; the degrees are inputs here
check_neighbors ==
    /\ stage = "neighbors"
    /\ num_neighbors' \in [1..Len(cells) -> NeighborCounts]
    /\ stage' = IF Len(cells) = 0 THEN "queue" ELSE "death"
    /\ cell_i' = 1
    /\ UNCHANGED <<cells, heap, cells_to_add, cells_to_remove, current_step,
                   dox_step, diffuse_values, sample, guye_move, bounds_on,
                   network, size, number_agents, locations, radii,
                   binVars, edgeVars, forceVars, integVars, diffVars, setupVars,
                   runVars, scanVars, nearVars>>

KillCellNoReset(c, n) ==
    [c EXCEPT !.death_counter = IF n < lonely_cell THEN @ + 1 ELSE @]

\* Cell.kill_cell
KillCell(c, n) ==
    [c EXCEPT !.death_counter = IF n < lonely_cell THEN @ + 1 ELSE 0]

\* history of kill_cell: the run of calls with too few neighbours that ends
\* at this call, the state the agent was in, whether the call queued it
KillHistory(c, n, queued) ==
    [c EXCEPT !.h_killed = TRUE,
              !.h_lonely = IF n < lonely_cell THEN @ + 1 ELSE 0,
              !.h_kill_state = c.state,
              !.h_kill_queued = queued]

kill_cell ==
    /\ AtCell("death")
    /\ \E c \in {KillCell(cells[cell_i], num_neighbors[cell_i])} :
       \E q \in {IF c.state = "Pluripotent" /\ c.death_counter >= death_thresh
                 THEN Append(cells_to_remove, cell_i)
                 ELSE cells_to_remove} :
          /\ cells' = TrackAll([cells EXCEPT ![cell_i] =
                          KillHistory(c, num_neighbors[cell_i], q # cells_to_remove)],
                       heap)
          /\ cells_to_remove' = q
    /\ stage' = StageAfter /\ cell_i' = IndexAfter
    /\ UNCHANGED <<heap, cells_to_add, current_step, dox_step, diffuse_values,
                   sample, guye_move, num_neighbors, network, bounds_on, notCell>>

\* a variant that differentiates the agent once the counter is at the threshold
DiffSurroundDifferentiates(c, h, n) ==
    IF c.state = "Pluripotent" /\ Bool(c, h, 2) = 0 /\ n >= diff_surround
    THEN (IF c.diff_counter + 1 >= pluri_to_diff
          THEN Differentiate([c EXCEPT !.diff_counter = @ + 1])
          ELSE [c EXCEPT !.diff_counter = @ + 1])
    ELSE c

\* Cell.diff_surround
DiffSurround(c, h, n) ==
    IF c.state = "Pluripotent" /\ Bool(c, h, 2) = 0 /\ n >= diff_surround
    THEN [c EXCEPT !.diff_counter = @ + 1]
    ELSE c

cell_diff_surround ==
    /\ AtCell("surround")
    /\ cells' = TrackAll([cells EXCEPT ![cell_i] =
                            DiffSurround(cells[cell_i], heap, num_neighbors[cell_i])],
                         heap)
    /\ stage' = StageAfter /\ cell_i' = IndexAfter
    /\ UNCHANGED <<heap, cells_to_add, cells_to_remove, current_step, dox_step,
                   diffuse_values, sample, guye_move, num_neighbors, network,
                   bounds_on, notCell>>

\* simulation.diff_cells: the Differentiated agents
DiffCells == { k \in 1..Len(cells) : cells[k].state = "Differentiated" }

\* Cell.motility, line 62: diff_cells[i].locationn raises AttributeError once
\* the loop over the other differentiated cells runs
MotilityRaises(c, h) ==
    /\ c.motion /\ Bool(c, h, 2) = 1 /\ c.state = "Pluripotent"
    /\ guye_move /\ Cardinality(DiffCells) >= 2

\* Cell.motility, lines 52-73: the agent the added force points to, -1 for a
\* random direction.  The chemotactic branch starts from diff_cells[0] and
\* completes only when the loop over the other differentiated cells is empty.
MotilityTarget(c, h) ==
    IF Bool(c, h, 2) = 1 /\ c.state = "Pluripotent" /\ guye_move /\ DiffCells # {}
    THEN CHOOSE k \in DiffCells : \A j \in DiffCells : k <= j
    ELSE -1

\* a variant that leaves the motion flag alone
MotilityKeepsMoving(c, n) ==
    IF c.motion
    THEN [c EXCEPT !.force = @ + 1, !.h_toward = MotilityTarget(c, heap)]
    ELSE c

\* Cell.motility.  force is the number of vectors of magnitude motility_force
\* added to self.force so far, h_toward what the last one points to.
Motility(c, n) ==
    LET c1 == IF n >= 1 THEN [c EXCEPT !.motion = FALSE] ELSE c
    IN  IF c1.motion
        THEN [c1 EXCEPT !.force = @ + 1, !.h_toward = MotilityTarget(c1, heap)]
        ELSE c1

motility ==
    /\ AtCell("motility")
    /\ \E c \in {Motility(cells[cell_i], num_neighbors[cell_i])} :
          IF MotilityRaises(c, heap)
          THEN /\ stage' = "error"
               /\ UNCHANGED <<cells, cell_i>>
          ELSE /\ cells' = TrackAll([cells EXCEPT ![cell_i] = c], heap)
               /\ stage' = StageAfter /\ cell_i' = IndexAfter
    /\ UNCHANGED <<heap, cells_to_add, cells_to_remove, current_step, dox_step,
                   diffuse_values, sample, guye_move, num_neighbors, network,
                   bounds_on, notCell>>

\* a variant without the contact-inhibition test
DivisionBranchNoInhibit(c, n) ==
    IF c.motion THEN "none"
    ELSE IF c.state = "Differentiated" /\ AtLeast(c.div_counter, diff_div_thresh)
         THEN "divide"
    ELSE IF c.state = "Pluripotent" /\ AtLeast(c.div_counter, pluri_div_thresh)
         THEN "divide"
    ELSE "increment"

\* update_cell, lines 183-192: what the division block does
DivisionBranch(c, n) ==
    IF c.motion THEN "none"
    ELSE IF c.state = "Differentiated" /\ AtLeast(c.div_counter, diff_div_thresh)
         THEN (IF n < contact_inhibit THEN "divide" ELSE "none")
    ELSE IF c.state = "Pluripotent" /\ AtLeast(c.div_counter, pluri_div_thresh)
         THEN "divide"
    ELSE "increment"

\* Cell.divide, lines 86-87
HalveCounter(c) == [c EXCEPT !.div_counter = Half(@), !.boolean_counter = 0]

\* Cell.divide, lines 105-106: the new Cell object
Child(c, loc, again) ==
    [c EXCEPT !.location = loc, !.force = 0, !.h_toward = 0, !.h_resampled = again,
              !.h_updates = 0, !.h_cycles = 0, !.h_tracked = FALSE,
              !.h_diff_update = 0, !.h_diff_cycle = 0, !.h_diff_motion = FALSE,
              !.h_div_before = <<>>, !.h_div_after = <<>>,
              !.h_death_start = c.death_counter, !.h_lonely = 0,
              !.h_killed = FALSE, !.h_kill_queued = FALSE, !.h_grid = <<>>,
              !.h_evals = <<>>]

\* the last n entries of a sequence
LastOf(q, n) == IF Len(q) <= n THEN q ELSE SubSeq(q, Len(q) - n + 1, Len(q))

\* the rest of update_cell for the agent c at cell_i once its division block
\* is over; queue is the addition queue divide() left
FinishUpdate(c, queue) ==
    LET gated  == current_step >= dox_step
        point  == GridPoint(c.location)
        r      == Pathway(c, heap[c.booleans], diffuse_values[point])
        others == RefsOf(queue) \cup
                  { cells[k].booleans : k \in (1..Len(cells)) \ {cell_i} }
        id     == IF gated /\ r.fresh THEN FreshId(others) ELSE c.booleans
        heap1  == IF gated
                  THEN [k \in DOMAIN heap \cup {id} |-> IF k = id THEN r.array ELSE heap[k]]
                  ELSE heap
        c1     == IF gated THEN [r.cell EXCEPT !.booleans = id] ELSE c
        turned == c.state = "Pluripotent" /\ c1.state = "Differentiated"
        c2     == [c1 EXCEPT
                     !.h_updates = @ + 1,
                     !.h_cycles = IF gated THEN @ + 1 ELSE @,
                     !.h_diff_update = IF turned THEN c1.h_updates + 1 ELSE @,
                     !.h_diff_cycle = IF turned THEN c1.h_cycles + 1 ELSE @,
                     !.h_diff_motion = IF turned THEN c1.motion ELSE @,
                     !.h_div_after = IF queue # cells_to_add THEN c1.div_counter ELSE @,
                     !.h_grid = IF gated
                                THEN <<diffuse_values[point], heap[c.booleans][4], r.value>>
                                ELSE @,
                     !.h_evals = IF gated THEN LastOf(Append(@, r.fresh), boolean_thresh)
                                 ELSE @]
        cells1 == [cells EXCEPT ![cell_i] = c2]
        heap2  == Collect(heap1, cells1, queue)
    IN  /\ heap' = heap2
        /\ cells' = TrackAll(cells1, heap2)
        /\ cells_to_add' = TrackAll(queue, heap2)
        /\ diffuse_values' =
              IF gated THEN [diffuse_values EXCEPT ![point] = r.value]
              ELSE diffuse_values
        /\ stage' = (IF cell_i < Len(cells) THEN "update" ELSE "queue")
        /\ cell_i' = IndexAfter
        /\ sample' = <<>>

\* Cell.update_cell.  When divide() has to resample, the action ends inside
\* the loop of divide() (stage "placing") and divide_resample continues it.
update_cell ==
    /\ AtCell("update")
    /\ LET c  == cells[cell_i]
           br == DivisionBranch(c, num_neighbors[cell_i])
       IN  IF br = "divide"
           THEN /\ Len(cells) + Len(cells_to_add) < MaxCellCount
                /\ \E c1 \in {[HalveCounter(c) EXCEPT !.h_div_before = c.div_counter,
                                                    !.h_div_after = <<>>]} :
                   \E loc \in Samples(c1) :
                      IF InBounds(loc)
                      THEN FinishUpdate(c1, Append(cells_to_add, Child(c1, loc, FALSE)))
                      ELSE /\ cells' = [cells EXCEPT ![cell_i] = c1]
                           /\ sample' = loc
                           /\ stage' = "placing"
                           /\ UNCHANGED <<heap, cells_to_add, diffuse_values, cell_i>>
           ELSE FinishUpdate(IF br = "increment"
                             THEN [c EXCEPT !.div_counter = PlusOne(@)]
                             ELSE c,
                             cells_to_add)
    /\ UNCHANGED <<cells_to_remove, current_step, dox_step, guye_move,
                   num_neighbors, network, bounds_on, notCell>>

\* Cell.divide, lines 96-102: one iteration of the while loop
divide_resample ==
    /\ stage = "placing"
    /\ \E loc \in Samples(cells[cell_i]) :
          IF InBounds(loc)
          THEN FinishUpdate(cells[cell_i],
                            Append(cells_to_add, Child(cells[cell_i], loc, TRUE)))
          ELSE /\ sample' = loc
               /\ UNCHANGED <<cells, heap, cells_to_add, diffuse_values, stage, cell_i>>
    /\ UNCHANGED <<cells_to_remove, current_step, dox_step, guye_move,
                   num_neighbors, network, bounds_on, notCell>>

\* the agents of cs whose index is not in the set gone
RECURSIVE Without(_, _, _)
Without(cs, gone, k) ==
    IF k > Len(cs) THEN <<>>
    ELSE (IF k \in gone THEN <<>> ELSE <<cs[k]>>) \o Without(cs, gone, k + 1)

\* update_cell_queue, then the next iteration of the loop of Run.py
update_cell_queue ==
    /\ stage = "queue"
    /\ \E cs \in {Without(cells, {cells_to_remove[k] : k \in 1..Len(cells_to_remove)}, 1)
                    \o cells_to_add} :
          /\ cells' = cs
          /\ heap' = Collect(heap, cs, <<>>)
    /\ cells_to_add' = <<>>
    /\ cells_to_remove' = <<>>
    /\ num_neighbors' = <<>>
    /\ cell_i' = 1
    /\ IF current_step < EndStep
       THEN current_step' = current_step + 1 /\ stage' = "neighbors"
       ELSE current_step' = current_step /\ stage' = "finished"
    /\ UNCHANGED <<dox_step, diffuse_values, sample, guye_move, network, bounds_on,
                   notCell>>

\* the agents the simulation starts with
\* <<location, radius>>; no point at distance 15 of <<4, 4, 0>> is in the domain
CellStarts == { <<<<4, 4, 0>>, 5>>, <<<<0, 0, 0>>, 5>>, <<<<4, 4, 0>>, 15>> }
CellArrays == { <<1, 0, 1, 1>>, <<0, 0, 0, 1>> }

NewCell(loc, rad, st, div, bc, marker) ==
    [ location |-> loc, radius |-> rad, motion |-> FALSE, booleans |-> 1,
      state |-> st, diff_counter |-> 0, div_counter |-> <<div, 0>>,
      death_counter |-> 0, boolean_counter |-> bc, force |-> 0, h_toward |-> 0,
      h_updates |-> 0, h_cycles |-> 0,
      h_tracked |-> (st = "Pluripotent" /\ marker = 1),
      h_was_diff |-> (st = "Differentiated"),
      h_diff_update |-> 0, h_diff_cycle |-> 0, h_diff_motion |-> FALSE,
      h_div_before |-> <<>>, h_div_after |-> <<>>, h_resampled |-> FALSE,
      h_death_start |-> 0, h_lonely |-> 0, h_killed |-> FALSE,
      h_kill_state |-> st, h_kill_queued |-> FALSE, h_grid |-> <<>>,
      h_evals |-> <<>> ]

InitCell ==
    /\ size = <<8, 8, 0>>
    /\ number_agents = 0 /\ locations = <<>> /\ radii = <<>>
    /\ \E start \in CellStarts : \E b \in CellArrays :
       \E st \in {"Pluripotent", "Differentiated"} :
       \E div \in {0, diff_div_thresh} : \E bc \in {0, 1} :
          /\ cells = << NewCell(start[1], start[2], st, div, bc, b[3]) >>
          /\ heap = [id \in {1} |-> b]
    /\ cells_to_add = <<>> /\ cells_to_remove = <<>>
    /\ current_step = 1
    /\ dox_step \in {1, 2}
    /\ stage = "neighbors" /\ cell_i = 1
    /\ diffuse_values = [pt \in (0..1) \X (0..1) \X {0} |-> 0]
    /\ sample = <<>>
    /\ guye_move = TRUE
    /\ num_neighbors = <<>> /\ network = {}
    /\ bounds_on = FALSE
    /\ IndexIdle /\ ForceIdle /\ IntegIdle /\ DiffIdle /\ SetupIdle
    /\ RunIdle /\ ScanIdle /\ NearIdle

NextCell ==
    \/ check_neighbors
    \/ kill_cell
    \/ cell_diff_surround
    \/ motility
    \/ update_cell
    \/ divide_resample
    \/ update_cell_queue

SpecCell == InitCell /\ [][NextCell]_vars

\* The interpreter keeps running the loop of divide(), and r.random() returns
\* every angle again and again: a placement that stays possible is taken.
Placed == divide_resample /\ stage' # "placing"

SpecCellFair == SpecCell /\ WF_vars(NextCell) /\ SF_vars(Placed)

\* The stages of a step up to motility() on three agents: the first one
\* Pluripotent, the others Pluripotent or Differentiated, so that diff_cells
\* holds none, one or two agents.
MotilityStarts == { <<0, 0, 0>>, <<4, 4, 0>>, <<8, 0, 0>> }

InitMotility ==
    /\ size = <<8, 8, 0>>
    /\ number_agents = 0 /\ locations = <<>> /\ radii = <<>>
    /\ \E b \in CellArrays : \E moving \in BOOLEAN :
       \E st \in [2..3 -> {"Pluripotent", "Differentiated"}] :
       \E at \in [2..3 -> MotilityStarts] :
          /\ cells = [k \in 1..3 |->
                        IF k = 1
                        THEN [NewCell(<<4, 0, 0>>, 5, "Pluripotent", 0, 0, b[3])
                                 EXCEPT !.motion = moving]
                        ELSE [NewCell(at[k], 5, st[k], 0, 0, 0)
                                 EXCEPT !.booleans = k]]
          /\ heap = [id \in 1..3 |-> IF id = 1 THEN b ELSE <<0, 0, 0, 1>>]
    /\ cells_to_add = <<>> /\ cells_to_remove = <<>>
    /\ current_step = 1
    /\ dox_step = 1
    /\ stage = "neighbors" /\ cell_i = 1
    /\ diffuse_values = [pt \in (0..1) \X (0..1) \X {0} |-> 0]
    /\ sample = <<>>
    /\ guye_move \in BOOLEAN
    /\ num_neighbors = <<>> /\ network = {}
    /\ bounds_on = FALSE
    /\ IndexIdle /\ ForceIdle /\ IntegIdle /\ DiffIdle /\ SetupIdle
    /\ RunIdle /\ ScanIdle /\ NearIdle

NextMotility ==
    \/ check_neighbors
    \/ kill_cell
    \/ cell_diff_surround
    \/ motility

SpecMotility == InitMotility /\ [][NextMotility]_vars

\* --------------------------------------- agents: Model_StemCells.py
\* An agent is a record of the fields of StemCell; location is <<x, y>>.
\* division_timer is <<n, k>> for n / 2^k.  sim.grid[0, x, y] is
\* diffuse_values[<<x, y>>], and sim.bounds is the box [0, size] x [0, size].
max_fgf4 == 1
neighbor_distance == 2
diff_surround_value == 1
GridShape == 4

\* the neighbours of the agent at index i in sim.network
Neighbors(i) ==
    { k \in 1..Len(cells) : <<i, k>> \in network \/ <<k, i>> \in network }

\* StemCell.boolean_function: the array it stores; it returns new_1
StemBooleanFunction(b, fgf4_bool) ==
    LET x == <<fgf4_bool, b[1], b[2], b[3], b[4]>>
    IN  << Rule2(x) % 2, Rule3(x) % 2, Rule4(x) % 2, Rule5(x) % 2 >>

StemNew1(b) == Rule1(<<0, b[1], b[2], b[3], b[4]>>) % 2

\* update_StemCell, lines 186-199: neighbours that stop the agent
StopsMoving(i, h) ==
    \/ /\ cells[i].state = "Differentiated"
       /\ \E k \in Neighbors(i) : cells[k].state = "Differentiated"
    \/ /\ Bool(cells[i], h, 3) = 1 /\ Bool(cells[i], h, 2) = 0
       /\ cells[i].state = "Pluripotent"
       /\ \E k \in Neighbors(i) :
             /\ Bool(cells[k], h, 3) = 1 /\ Bool(cells[k], h, 2) = 0
             /\ cells[k].state = "Pluripotent"

\* update_StemCell, lines 201-209, as the first if and the second if / else
\* decide for an agent with timer t
FirstIfDivides(c) ==
    c.state = "Differentiated" /\ AtLeast(c.division_timer, diff_div_thresh)

SecondIfDivides(c) ==
    c.state = "Pluripotent" /\ AtLeast(c.division_timer, pluri_div_thresh)

DivisionBlock(c) == ~c.motion /\ c.compress < 2

\* the index numpy uses for grid index x on an axis of length GridShape:
\* a negative index counts from the end, -1 stands for IndexError
NumpyIndex(x) ==
    IF 0 <= x /\ x < GridShape THEN x
    ELSE IF x < 0 /\ x >= -GridShape THEN x + GridShape
    ELSE -1

StemGridPoint(loc) == <<NumpyIndex(loc[1]), NumpyIndex(loc[2])>>

\* update_StemCell, lines 211-247
StemPathway(c, b, v) ==
    LET v1  == IF v < max_fgf4 /\ b[4] = 1 THEN v + 1 ELSE v
        fgf4_bool == IF v1 > 0 THEN 1 ELSE 0
        tempFGFR == b[1]
        b1  == StemBooleanFunction(b, fgf4_bool)
        fgf4 == StemNew1(b)
        v2  == IF tempFGFR = 0 /\ fgf4 = 1 /\ v1 >= 1 THEN v1 - 1 ELSE v1
        count == b1[3] = 1 /\ c.state = "Pluripotent"
        c1  == IF count THEN [c EXCEPT !.diff_timer = @ + 1] ELSE c
        diff == count /\ c1.diff_timer >= pluri_to_diff
    IN  [ cell  |-> IF diff THEN Differentiate(c1) ELSE c1,
          array |-> IF diff THEN DifferentiateArray(b1) ELSE b1,
          value |-> v2 ]

\* RandomPointOnSphere() for the sampled angles
StemDirections == { <<1, 0>>, <<-1, 0>>, <<0, 1>>, <<0, -1>> }

\* location = RandomPointOnSphere() * radius * 2.0 + self.location
StemSamples(c) ==
    { << d[1] * (c.nuclear_radius + c.cytoplasm_radius) * 2 + c.location[1],
         d[2] * (c.nuclear_radius + c.cytoplasm_radius) * 2 + c.location[2] >> :
      d \in StemDirections }

\* sim.boundary.contains_point(location[0:2]); no sampled point is on the edge
ContainsPoint(loc) ==
    /\ 0 < loc[1] /\ loc[1] < size[1]
    /\ 0 < loc[2] /\ loc[2] < size[2]

\* StemCell.divide, lines 159-164: the new StemCell object
StemChild(c, loc) ==
    [c EXCEPT !.ID = Len(cells) + Len(cells_to_add), !.location = loc,
              !.compress = 0, !.h_div_before = <<>>, !.h_div_after = <<>>]

\* the stages of one step of the Model_StemCells simulation
StemNextStage(st) ==
    CASE st = "neighbors" -> "death"
      [] st = "death"     -> "surround"
      [] st = "surround"  -> "update"
      [] st = "update"    -> "queue"

StemStageAfter == IF cell_i < Len(cells) THEN stage ELSE StemNextStage(stage)

stemFixed == <<cells_to_remove, dox_step, guye_move, num_neighbors, bounds_on>>

\* the simulation rebuilds sim.network; the graph is an input here
update_network ==
    /\ stage = "neighbors"
    /\ network' \in SUBSET { <<i, k>> \in (1..Len(cells)) \X (1..Len(cells)) : i < k }
    /\ stage' = "death" /\ cell_i' = 1
    /\ UNCHANGED <<cells, heap, cells_to_add, current_step, diffuse_values, sample,
                   stemFixed, notCell>>

\* StemCell.cell_death
cell_death ==
    /\ AtCell("death")
    /\ cells' = [cells EXCEPT ![cell_i].death_timer =
                    IF Cardinality(Neighbors(cell_i)) < 1 THEN @ + 1 ELSE @]
    /\ stage' = StemStageAfter /\ cell_i' = IndexAfter
    /\ UNCHANGED <<heap, cells_to_add, current_step, diffuse_values, sample, network,
                   stemFixed, notCell>>

\* StemCell.diff_surround_funct
SurroundCounter(i) ==
    Cardinality({ k \in Neighbors(i) :
                    /\ cells[k].state = "Differentiated"
                    /\ (cells[k].location[1] - cells[i].location[1])
                           * (cells[k].location[1] - cells[i].location[1])
                       + (cells[k].location[2] - cells[i].location[2])
                           * (cells[k].location[2] - cells[i].location[2])
                       <= neighbor_distance * neighbor_distance })

diff_surround_funct ==
    /\ AtCell("surround")
    /\ cells' = [cells EXCEPT ![cell_i].diff_timer =
                    IF SurroundCounter(cell_i) >= diff_surround_value THEN @ + 1 ELSE @]
    /\ stage' = StemStageAfter /\ cell_i' = IndexAfter
    /\ UNCHANGED <<heap, cells_to_add, current_step, diffuse_values, sample, network,
                   stemFixed, notCell>>

\* update_StemCell from line 211 on, for the agent c at cell_i; queue is the
\* addition queue the division block left
StemFinish(c, queue) ==
    LET point  == StemGridPoint(c.location)
        raises == point[1] = -1 \/ point[2] = -1
        c0     == [c EXCEPT !.h_div_after =
                       IF queue # cells_to_add THEN c.division_timer ELSE @]
    IN  IF raises
        THEN /\ cells' = [cells EXCEPT ![cell_i] = c0]
             /\ cells_to_add' = queue
             /\ stage' = "error"
             /\ sample' = <<>>
             /\ UNCHANGED <<heap, diffuse_values, cell_i>>
        ELSE \E r \in {StemPathway(c0, heap[c0.booleans], diffuse_values[point])} :
             \E id \in {FreshId(RefsOf(queue) \cup
                          { cells[k].booleans : k \in (1..Len(cells)) \ {cell_i} })} :
             \E cells1 \in {[cells EXCEPT ![cell_i] = [r.cell EXCEPT !.booleans = id]]} :
                /\ cells' = cells1
                /\ cells_to_add' = queue
                /\ heap' = Collect([k \in DOMAIN heap \cup {id} |->
                                       IF k = id THEN r.array ELSE heap[k]],
                                   cells1, queue)
                /\ diffuse_values' = [diffuse_values EXCEPT ![point] = r.value]
                /\ stage' = (IF cell_i < Len(cells) THEN "update" ELSE "queue")
                /\ cell_i' = IndexAfter
                /\ sample' = <<>>

\* StemCell.divide, lines 155-166, once the location is chosen
StemDivided(c, loc) == StemChild([c EXCEPT !.division_timer = Half(@)], loc)

\* update_StemCell, lines 205-209: the second if and its else
SecondIf(c, queue) ==
    IF SecondIfDivides(c)
    THEN /\ Len(cells) + Len(queue) < MaxCellCount
         /\ \E loc \in StemSamples(c) :
               IF bounds_on /\ ~ContainsPoint(loc)
               THEN /\ cells' = [cells EXCEPT ![cell_i] = c]
                    /\ sample' = loc
                    /\ stage' = "placing_second"
                    /\ UNCHANGED <<heap, cells_to_add, diffuse_values, cell_i>>
               ELSE StemFinish([c EXCEPT !.division_timer = Half(@)],
                               Append(queue, StemDivided(c, loc)))
    ELSE StemFinish([c EXCEPT !.division_timer = PlusOne(@)], queue)

\* update_StemCell, lines 202-203: the first if
FirstIf(c) ==
    IF FirstIfDivides(c)
    THEN /\ Len(cells) + Len(cells_to_add) < MaxCellCount
         /\ \E loc \in StemSamples(c) :
               IF bounds_on /\ ~ContainsPoint(loc)
               THEN /\ cells' = [cells EXCEPT ![cell_i] = c]
                    /\ sample' = loc
                    /\ stage' = "placing_first"
                    /\ UNCHANGED <<heap, cells_to_add, diffuse_values, cell_i>>
               ELSE SecondIf([c EXCEPT !.division_timer = Half(@)],
                             Append(cells_to_add, StemDivided(c, loc)))
    ELSE SecondIf(c, cells_to_add)

\* StemCell.update_StemCell.  When divide() has to resample, the action ends
\* inside the loop of divide() and stem_resample continues it.
update_StemCell ==
    /\ AtCell("update")
    /\ \E c \in {[cells[cell_i] EXCEPT
                    !.motion = IF StopsMoving(cell_i, heap) THEN FALSE ELSE @,
                    !.h_div_before = cells[cell_i].division_timer,
                    !.h_div_after = <<>>]} :
          IF DivisionBlock(c) THEN FirstIf(c) ELSE StemFinish(c, cells_to_add)
    /\ UNCHANGED <<current_step, network, stemFixed, notCell>>

\* StemCell.divide, lines 148-151: one iteration of the while loop
stem_resample ==
    /\ stage \in {"placing_first", "placing_second"}
    /\ \E c \in {cells[cell_i]} : \E loc \in StemSamples(c) :
          IF ContainsPoint(loc)
          THEN IF stage = "placing_first"
               THEN SecondIf([c EXCEPT !.division_timer = Half(@)],
                             Append(cells_to_add, StemDivided(c, loc)))
               ELSE StemFinish([c EXCEPT !.division_timer = Half(@)],
                               Append(cells_to_add, StemDivided(c, loc)))
          ELSE /\ sample' = loc
               /\ UNCHANGED <<cells, heap, cells_to_add, diffuse_values, stage, cell_i>>
    /\ UNCHANGED <<current_step, network, stemFixed, notCell>>

\* the addition queue is emptied into the agent list and the next step starts
update_queue ==
    /\ stage = "queue"
    /\ cells' = cells \o cells_to_add
    /\ cells_to_add' = <<>>
    /\ network' = {}
    /\ cell_i' = 1
    /\ IF current_step < EndStep
       THEN current_step' = current_step + 1 /\ stage' = "neighbors"
       ELSE current_step' = current_step /\ stage' = "finished"
    /\ UNCHANGED <<heap, diffuse_values, sample, stemFixed, notCell>>

\* the agents the simulation starts with
NewStemCell(loc, st, timer, comp) ==
    [ ID |-> 0, location |-> loc, motion |-> FALSE, mass |-> 1,
      nuclear_radius |-> 1, cytoplasm_radius |-> 0, booleans |-> 1,
      state |-> st, diff_timer |-> 0, division_timer |-> <<timer, 0>>,
      death_timer |-> 0, compress |-> comp,
      h_div_before |-> <<>>, h_div_after |-> <<>> ]

InitStem ==
    /\ size = <<GridShape, GridShape, 0>>
    /\ number_agents = 0 /\ locations = <<>> /\ radii = <<>>
    /\ \E loc \in { <<1, 1>>, <<3, 3>> } : \E b \in CellArrays :
       \E st \in {"Pluripotent", "Differentiated"} :
       \E timer \in {0, diff_div_thresh} : \E comp \in {0, 2} :
          /\ cells = << NewStemCell(loc, st, timer, comp) >>
          /\ heap = [id \in {1} |-> b]
    /\ cells_to_add = <<>> /\ cells_to_remove = <<>>
    /\ current_step = 1 /\ dox_step = 0
    /\ stage = "neighbors" /\ cell_i = 1
    /\ diffuse_values = [pt \in (0..(GridShape - 1)) \X (0..(GridShape - 1)) |-> 0]
    /\ sample = <<>>
    /\ guye_move = FALSE
    /\ num_neighbors = <<>> /\ network = {}
    /\ bounds_on \in BOOLEAN
    /\ IndexIdle /\ ForceIdle /\ IntegIdle /\ DiffIdle /\ SetupIdle
    /\ RunIdle /\ ScanIdle /\ NearIdle

NextStem ==
    \/ update_network
    \/ cell_death
    \/ diff_surround_funct
    \/ update_StemCell
    \/ stem_resample
    \/ update_queue

SpecStem == InitStem /\ [][NextStem]_vars

\* ------------------------------------------ registration: parameters.py
\* caps of number_cells and of the number of registrations
MaxCells == 3
MaxArrays == 3

\* self.graph_names = ["neighbor_graph", "jkr_graph"]
graph_names == {"neighbor_graph", "jkr_graph"}

\* the inputs of cell_type and cell_arrays
TypeNames == {"NANOG_high", "GATA6_high"}
ArrayNames == {"locations", "radii"}
ArrayParams ==
    { <<n>> : n \in ArrayNames } \cup { <<n, "float">> : n \in ArrayNames }
        \cup { <<n, "float", 3>> : n \in ArrayNames }
ArrayArgs == { <<p>> : p \in ArrayParams } \cup (ArrayParams \X ArrayParams)

\* d[key] = value
SetItem(d, key, value) ==
    [k \in DOMAIN d \cup {key} |-> IF k = key THEN value ELSE d[k]]

\* Simulation.cell_type
cell_type(name, number) ==
    /\ ~setup_raised
    /\ number_cells + number <= MaxCells
    /\ number_cells' = number_cells + number
    /\ graph_vertices' = [g \in graph_names |-> graph_vertices[g] + number]
    /\ cell_types' = SetItem(cell_types, name, <<number_cells, number_cells + number>>)
    /\ UNCHANGED <<cell_array_names, array_shape, setup_raised, notSetup>>

\* the loop of cell_arrays over args, from the registrations st made so far;
\* the Exception ends the loop after the name has been appended
RECURSIVE RegisterArrays(_, _)
RegisterArrays(args, st) ==
    IF args = <<>> THEN st
    ELSE LET array_params == Head(args)
             names == Append(st.names, array_params[1])
             length == Len(array_params)
         IN  IF length = 2
             THEN RegisterArrays(Tail(args),
                     [st EXCEPT !.names = names,
                                !.shapes = SetItem(@, array_params[1], <<number_cells>>)])
             ELSE IF length = 3
             THEN RegisterArrays(Tail(args),
                     [st EXCEPT !.names = names,
                                !.shapes = SetItem(@, array_params[1],
                                                   <<number_cells, array_params[3]>>)])
             ELSE [st EXCEPT !.names = names, !.raised = TRUE]

\* Simulation.cell_arrays
cell_arrays(args) ==
    /\ ~setup_raised
    /\ Len(cell_array_names) + Len(args) <= MaxArrays
    /\ \E st \in {RegisterArrays(args, [names |-> cell_array_names,
                                         shapes |-> array_shape,
                                         raised |-> FALSE])} :
          /\ cell_array_names' = st.names
          /\ array_shape' = st.shapes
          /\ setup_raised' = st.raised
    /\ UNCHANGED <<number_cells, graph_vertices, cell_types, notSetup>>

\* Simulation.__init__: no agents, two empty graphs, no registrations
InitSetup ==
    /\ number_cells = 0
    /\ cell_array_names = <<>> /\ cell_types = <<>> /\ array_shape = <<>>
    /\ graph_vertices = [g \in graph_names |-> 0]
    /\ setup_raised = FALSE
    /\ RunIdle /\ ScanIdle /\ NearIdle
    /\ AgentsIdle /\ IndexIdle /\ ForceIdle /\ IntegIdle /\ DiffIdle /\ CellIdle

NextSetup ==
    \/ \E name \in TypeNames : \E number \in 1..MaxCells : cell_type(name, number)
    \/ \E args \in ArrayArgs : cell_arrays(args)

SpecSetup == InitSetup /\ [][NextSetup]_vars

\* ------------------------------------------------ the step loop: Run.py
LoopBodyDiffusionLast ==
    << "info", "check_neighbors", "nearest_diff", "cell_death", "cell_diff_surround",
       "cell_motility", "update_cells", "update_cell_queue", "check_neighbors",
       "handle_movement", "update_diffusion", "step_image", "step_csv",
       "simulation_data" >>

\* the calls of the loop body, lines 27-70, in program order
LoopBody ==
    << "info", "update_diffusion", "check_neighbors", "nearest_diff", "cell_death",
       "cell_diff_surround", "cell_motility", "update_cells", "update_cell_queue",
       "check_neighbors", "handle_movement", "step_image", "step_csv",
       "simulation_data" >>

\* one call of the loop body; the call returns before the next one starts
RunCall ==
    /\ run_pc \in 1..Len(LoopBody)
    /\ stage' = LoopBody[run_pc]
    /\ trace' = Append(trace, LoopBody[run_pc])
    /\ run_pc' = run_pc + 1
    /\ UNCHANGED <<current_step, end_step>>

\* for simulation.current_step in range(beginning_step, end_step + 1)
NextIteration ==
    /\ run_pc = Len(LoopBody) + 1
    /\ current_step < end_step
    /\ current_step' = current_step + 1
    /\ run_pc' = 1
    /\ trace' = <<>>
    /\ stage' = "for"
    /\ UNCHANGED end_step

\* Output.image_to_video(simulation), after the loop
image_to_video ==
    /\ run_pc = Len(LoopBody) + 1
    /\ current_step = end_step
    /\ run_pc' = 0
    /\ stage' = "image_to_video"
    /\ UNCHANGED <<current_step, end_step, trace>>

runFixed ==
    <<cells, heap, cells_to_add, cells_to_remove, dox_step, cell_i, diffuse_values,
      sample, guye_move, num_neighbors, network, bounds_on, agentVars, binVars,
      edgeVars, forceVars, integVars, diffVars, setupVars, scanVars, nearVars>>

InitRun ==
    /\ end_step \in 1..EndStep
    /\ current_step \in 1..end_step
    /\ run_pc = 1 /\ trace = <<>> /\ stage = "for"
    /\ cells = <<>> /\ heap = <<>> /\ cells_to_add = <<>> /\ cells_to_remove = <<>>
    /\ dox_step = 0 /\ cell_i = 0 /\ diffuse_values = <<>> /\ sample = <<>>
    /\ guye_move = FALSE /\ num_neighbors = <<>> /\ network = {} /\ bounds_on = FALSE
    /\ AgentsIdle /\ IndexIdle /\ ForceIdle /\ IntegIdle /\ DiffIdle /\ SetupIdle
    /\ ScanIdle /\ NearIdle

NextRun ==
    \/ RunCall /\ UNCHANGED runFixed
    \/ NextIteration /\ UNCHANGED runFixed
    \/ image_to_video /\ UNCHANGED runFixed

SpecRun == InitRun /\ [][NextRun]_vars

\* ---------------------------------------------- properties: the index
\* the slots that hold agent i, among the slots the bin counts cover
SlotsOf(i) ==
    { a \in DOMAIN bins :
        /\ bins[a] = i
        /\ (a % max_cells) < HelpAt(bins_help, a \div max_cells) }

\* the build the graph builders read: every agent in exactly one bin, the
\* bin of its bin_locations, and bins_help the occupancy of each bin
BuildComplete ==
    phase \in {"scan", "built"} =>
        /\ \A i \in Agents :
              /\ Cardinality(SlotsOf(i)) = 1
              /\ \A a \in SlotsOf(i) :
                    a \div max_cells = BinIndex(BinLocation(locations[i]))
        /\ \A b \in 0..(NumBins - 1) :
              HelpAt(bins_help, b) =
                  Cardinality({i \in Agents : BinIndex(BinLocation(locations[i])) = b})

\* C10: building the spatial index never writes an agent index at a slot
\* position >= the per-bin capacity (an overfull bin leads to a retry with
\* doubled capacity instead), and after the build every agent index is stored
\* in exactly one bin and bins_help[b] is the number of agents of bin b.
C10_NoWriteBeyondCapacity == (~slot_overflow) /\ BuildComplete

\* ------------------------------------- properties: the graph builders
\* the O(n^2) reference: the pairs within the interaction range
InRange(i, j) ==
    IF kernel = "neighbors"
    THEN Dist2(locations[i], locations[j]) <= distance * distance
    ELSE Dist2(locations[i], locations[j])
            <= (radii[i] + radii[j]) * (radii[i] + radii[j])

BruteForceEdges == { p \in Agents \X Agents : p[1] < p[2] /\ InRange(p[1], p[2]) }

EdgeSlots == { e \in DOMAIN if_edge : if_edge[e] = 1 }

PassComplete ==
    /\ phase \in {"scan", "built"}
    /\ scanned = Agents
    /\ \A i \in Agents : edge_count[i] <= max_neighbors

\* C1: when a pass of get_neighbors_cpu over bins built by
\* floor(location / bin_size) + ghost layer, with bin_size >= the neighbor
\* radius, ends without an overflow, its edge list is the brute-force one:
\* every stored edge is a pair focus < current within the radius (so never a
\* pair (i, i)), and every such pair is stored exactly once.
C1_NeighborsMatchBruteForce ==
    (kernel = "neighbors" /\ PassComplete) =>
        /\ \A e \in EdgeSlots : edge_holder[e] \in BruteForceEdges
        /\ \A p \in BruteForceEdges :
              Cardinality({e \in EdgeSlots : edge_holder[e] = p}) = 1

\* a finished pass with an edge between agents of diagonally adjacent bins,
\* and a pair of agents that is no edge
C1_Witness ==
    /\ kernel = "neighbors"
    /\ phase = "built"
    /\ \E e \in EdgeSlots :
          Cardinality({a \in Axes :
              bin_locations[edge_holder[e][1]][a] # bin_locations[edge_holder[e][2]][a]}) >= 2
    /\ \E i, j \in Agents : i < j /\ <<i, j>> \notin BruteForceEdges

\* C9: a work item of either builder kernel leaves edge_count[focus] equal to
\* the true number of qualifying candidates, also when that exceeds
\* max_neighbors; and when edge_count[focus] <= max_neighbors every qualifying
\* edge of the focus is in its range of the buffer.
C9_EdgeCountIsTrueCount ==
    phase \in {"scan", "built"} =>
        \A f \in scanned :
            /\ edge_count[f] = Cardinality({p \in BruteForceEdges : p[1] = f})
            /\ edge_count[f] <= max_neighbors =>
                  \A p \in BruteForceEdges :
                      p[1] = f =>
                          \E e \in (f * max_neighbors)..((f + 1) * max_neighbors - 1) :
                              if_edge[e] = 1 /\ edge_holder[e] = p

\* a work item that met more qualifying candidates than its capacity
C9_Witness ==
    /\ phase = "scan"
    /\ \E f \in scanned :
          /\ edge_count[f] > max_neighbors
          /\ \A e \in (f * max_neighbors)..((f + 1) * max_neighbors - 1) : if_edge[e] = 1

\* the entries of edge_holder and if_edge that belong to a focus agent
FocusRange(f) == (f * max_neighbors)..((f + 1) * max_neighbors - 1)

\* the step is one of the work item of focus agent f
StepOf(f) ==
    \/ scan_pos'[f] # scan_pos[f]
    \/ f \in scanned' /\ f \notin scanned

\* a step of the work item of f writes edge_holder and if_edge only inside
\* the range of f, and only edge_count[f]
OwnFootprint ==
    \A f \in Agents :
        (phase = "scan" /\ StepOf(f)) =>
            /\ DOMAIN edge_holder' = DOMAIN edge_holder
            /\ DOMAIN if_edge' = DOMAIN if_edge
            /\ \A x \in DOMAIN edge_holder :
                  x \notin FocusRange(f) =>
                      edge_holder'[x] = edge_holder[x] /\ if_edge'[x] = if_edge[x]
            /\ \A i \in Agents \ {f} : edge_count'[i] = edge_count[i]

\* the buffers after the work items of the agents 0..(n - 1) have run one
\* after another, in index order, on zeroed buffers
RECURSIVE SequentialBuild(_)
SequentialBuild(n) ==
    IF n = 0
    THEN [ edge_holder |-> ZeroEdges(max_neighbors),
           if_edge     |-> ZeroFlags(max_neighbors),
           edge_count  |-> ZeroCounts ]
    ELSE LET prev  == SequentialBuild(n - 1)
             cands == Candidates(n - 1)
             r     == ScanCandidates(cands, Len(cands), n - 1,
                         [ edge_holder |-> prev.edge_holder,
                           if_edge     |-> prev.if_edge,
                           count       |-> 0 ])
         IN  [ edge_holder |-> r.edge_holder,
               if_edge     |-> r.if_edge,
               edge_count  |-> [prev.edge_count EXCEPT ![n - 1] = r.count] ]

AllItemsDone == phase \in {"scan", "built"} /\ scanned = Agents

SameAsSequential ==
    AllItemsDone =>
        \E seq \in {SequentialBuild(number_agents)} :
            /\ edge_holder = seq.edge_holder
            /\ if_edge = seq.if_edge
            /\ edge_count = seq.edge_count

\* C18: in the graph-builder kernels the work item of focus agent f writes
\* only edge_holder and if_edge entries with index in
\* [f * max_neighbors, (f + 1) * max_neighbors) and only edge_count[f], also
\* when its qualifying candidates exceed max_neighbors; so in every
\* interleaving of the work items no two of them write the same location,
\* and the result equals that of the sequential execution.
C18_DisjointFootprints == []SameAsSequential /\ [][OwnFootprint]_vars

\* two work items are under way at once, one of them with more qualifying
\* candidates than max_neighbors already counted
C18_Witness ==
    /\ phase = "scan"
    /\ \E f, g \in Agents \ scanned :
          /\ f # g /\ scan_pos[f] > 0 /\ scan_pos[g] > 0
          /\ cell_edge_count[f] > max_neighbors

\* ------------------------------------------- properties: contact forces
\* the contribution the non-ruptured edges e < n add to agent i on one axis
RECURSIVE IncidentSum(_, _, _)
IncidentSum(n, i, axis) ==
    IF n = 0 THEN 0
    ELSE IncidentSum(n - 1, i, axis)
         + (IF delete_edges[n - 1] = 1 THEN 0
            ELSE IF Cell1(n - 1) = i THEN Contribution(Cell1(n - 1), Cell2(n - 1), axis)
            ELSE IF Cell2(n - 1) = i THEN -Contribution(Cell1(n - 1), Cell2(n - 1), axis)
            ELSE 0)

KernelFinished == \A e \in Edges : item_pc[e] = ItemDone

\* C2: when the per-edge work items run in parallel, for every interleaving
\* of their loads and stores the accumulator of each agent ends as its initial
\* value plus the contributions of all its incident non-ruptured edges.
C2_NoContributionLost ==
    (backend \in {"cpu", "gpu"} /\ KernelFinished) =>
        \A i \in Agents : \A axis \in Axes :
            jkr_forces[i][axis] =
                jkr_forces0[i][axis] + IncidentSum(Len(jkr_edges), i, axis)

\* the nondimensional overlap of the edge is at or below the rupture value
Ruptured(e) ==
    Overlap(Cell1(e), Cell2(e)) * 1000000
        <= (-360562) * OverlapScale(Cell1(e), Cell2(e))

\* the vector the force law gives cell_1 of the edge
EdgeForce(e) == [axis \in Axes |-> Contribution(Cell1(e), Cell2(e), axis)]

Negated(v) == [axis \in Axes |-> -v[axis]]

\* C11: every edge the contact-force kernel has processed had exactly one of
\* two outcomes: with d <= -0.360562 it is marked in delete_edges and its work
\* item added nothing to either endpoint; with d > -0.360562 it is not marked
\* and its work item added the force to cell_1 and its negation to cell_2.
\* An edge whose work item has not finished is not marked.
C11_RuptureOrForce ==
    \A e \in Edges :
        IF item_pc[e] = ItemDone
        THEN IF Ruptured(e)
             THEN delete_edges[e] = 1 /\ item_added[e] = NothingAdded
             ELSE /\ delete_edges[e] = 0
                  /\ item_added[e] = <<EdgeForce(e), Negated(EdgeForce(e))>>
        ELSE delete_edges[e] = 0

\* one processed edge ruptured, another with a negative overlap above the
\* rupture value received a non-zero force
C11_Witness ==
    \E e1, e2 \in Edges :
        /\ item_pc[e1] = ItemDone /\ item_pc[e2] = ItemDone
        /\ Ruptured(e1) /\ delete_edges[e1] = 1
        /\ ~Ruptured(e2) /\ Overlap(Cell1(e2), Cell2(e2)) < 0
        /\ item_added[e2] # NothingAdded

\* both kernels have run on the same inputs
BothKernelsRan == first_forces # <<>> /\ KernelFinished

\* C16: for the same edge list, locations, radii and material constants the
\* accelerated kernel and the fallback kernel, each with its work items run
\* one after another, mark exactly the same edges in delete_edges and add the
\* same force to every agent's accumulator.
C16_KernelsAgree ==
    BothKernelsRan =>
        /\ delete_edges = first_delete
        /\ jkr_forces = first_forces

\* both kernels ran on two edges sharing an agent, one ruptured, one bonded
\* with a force that moved the shared agent's accumulator
C16_Witness ==
    /\ BothKernelsRan
    /\ Len(jkr_edges) = 2
    /\ \E e \in Edges : delete_edges[e] = 1
    /\ \E i \in Agents : jkr_forces[i] # jkr_forces0[i]

\* the sum over the agents 0..(n - 1) of one axis of their accumulators
RECURSIVE ForceTotal(_, _, _)
ForceTotal(f, n, axis) ==
    IF n = 0 THEN 0 ELSE ForceTotal(f, n - 1, axis) + f[n - 1][axis]

Coincide(e) == locations[Cell1(e)] = locations[Cell2(e)]

\* C19: what a processed non-ruptured edge added to cell_1 is the exact
\* negation of what it added to cell_2, so a run of the kernel with its work
\* items one after another leaves the vector sum of all accumulators
\* unchanged; an edge whose two centres coincide adds the zero vector to both
\* endpoints and is not marked for removal.
C19_EqualAndOpposite ==
    /\ \A e \in Edges :
          item_pc[e] = ItemDone =>
              /\ item_added[e][1] = Negated(item_added[e][2])
              /\ Coincide(e) =>
                    delete_edges[e] = 0 /\ item_added[e] = NothingAdded
    /\ KernelFinished =>
          \A axis \in Axes :
              ForceTotal(jkr_forces, NumAgents, axis)
                  = ForceTotal(jkr_forces0, NumAgents, axis)

\* the kernel has finished on an edge with coincident centres and on a
\* bonded edge that added a non-zero force
C19_Witness ==
    /\ KernelFinished
    /\ \E e \in Edges : Coincide(e) /\ delete_edges[e] = 0
    /\ \E e \in Edges : delete_edges[e] = 0 /\ item_added[e] # NothingAdded

\* ------------------------------------- properties: the force cycle
\* the two agents started apart and overlapping: 0 < d0 < r1 + r2
StartOverlapping ==
    /\ Dist2(locations0[0], locations0[1]) > 0
    /\ Dist2(locations0[0], locations0[1]) < (radii[0] + radii[1]) * (radii[0] + radii[1])

\* the cycle is over: the force kernel and the move of both agents
CycleDone == KernelFinished /\ moved = {0, 1}

\* the force the kernel put on cell_1, projected on the vector from cell_2 to
\* cell_1 at the start: positive pushes the agents apart, negative pulls
\* them together
Radial ==
    item_added[0][1][1] * (locations0[0][1] - locations0[1][1])
        + item_added[0][1][2] * (locations0[0][2] - locations0[1][2])
        + item_added[0][1][3] * (locations0[0][3] - locations0[1][3])

\* C17 (as stated): for two agents at distance d0 with 0 < d0 < r1 + r2, no
\* motility force and zeroed accumulators, after one jkr_forces and
\* apply_forces cycle either their separation is strictly larger than d0 or
\* their edge has been marked for removal.
C17_SeparationGrows ==
    (CycleDone /\ StartOverlapping) =>
        \/ Dist2(locations[0], locations[1]) > Dist2(locations0[0], locations0[1])
        \/ delete_edges[0] = 1

\* C17 (amended): for two such agents the edge is never marked for removal;
\* when the force of the law pushes them apart their separation after the
\* cycle is not smaller than d0, and when it pulls them together (small
\* overlap, f(d) < 0) no coordinate of either agent moves away from the
\* other agent's starting position.
C17_SeparationFollowsForce ==
    (CycleDone /\ StartOverlapping) =>
        /\ delete_edges[0] = 0
        /\ Radial >= 0 =>
              Dist2(locations[0], locations[1]) >= Dist2(locations0[0], locations0[1])
        /\ Radial < 0 =>
              \A axis \in Axes :
                  /\ (locations[0][axis] - locations0[0][axis])
                         * (locations0[0][axis] - locations0[1][axis]) <= 0
                  /\ (locations[1][axis] - locations0[1][axis])
                         * (locations0[1][axis] - locations0[0][axis]) <= 0

\* a cycle in which the agents were pushed apart and ended further apart
C17_Witness ==
    /\ CycleDone /\ StartOverlapping /\ Radial > 0
    /\ Dist2(locations[0], locations[1]) > Dist2(locations0[0], locations0[1])

\* a cycle in which the agents were pulled together and ended closer
C17_Pulled ==
    /\ CycleDone /\ StartOverlapping /\ Radial < 0
    /\ Dist2(locations[0], locations[1]) < Dist2(locations0[0], locations0[1])

\* --------------------------------------------- properties: integration
\* the unclamped new coordinate of an agent, from the state before the kernel
Unclamped(i, axis) == NewLocation(locations0, i, axis)

\* C3: after apply_forces every coordinate of a moved agent lies in
\* [0, size[axis]]; a coordinate whose unclamped new value exceeds size[axis]
\* is exactly size[axis], one below 0 is exactly 0, one inside the interval is
\* stored unchanged, independently on each axis.
C3_ClampedToDomain ==
    \A i \in moved : \A axis \in Axes :
        /\ 0 <= locations[i][axis] /\ locations[i][axis] <= size[axis]
        /\ Unclamped(i, axis) > size[axis] => locations[i][axis] = size[axis]
        /\ Unclamped(i, axis) < 0 => locations[i][axis] = 0
        /\ (0 <= Unclamped(i, axis) /\ Unclamped(i, axis) <= size[axis])
               => locations[i][axis] = Unclamped(i, axis)

\* an agent has been moved with one axis clamped above, one clamped below and
\* one stored unchanged at a new interior value
C3_Witness ==
    \E i \in moved :
        /\ \E axis \in Axes : Unclamped(i, axis) > size[axis]
        /\ \E axis \in Axes : Unclamped(i, axis) < 0
        /\ \E axis \in Axes :
              /\ 0 < Unclamped(i, axis) /\ Unclamped(i, axis) < size[axis]
              /\ Unclamped(i, axis) # locations0[i][axis]

\* ------------------------------------------------ properties: diffusion
\* C4: with no injection or consumption the total over the interior cells is
\* the same after every sub-step as before the call, for any number of
\* sub-steps and any diffuse_dt and last_dt.
C4_InteriorTotalConserved ==
    InteriorTotal(base) = total0 * base_den

\* a full sub-step and the shorter last sub-step have both run on a
\* non-uniform field whose border did not hold the reflected values
C4_Witness ==
    /\ steps >= 2 /\ step_i = steps /\ last_a # diffuse_a
    /\ \E p \in InteriorCells : \E q \in InteriorCells : base[p] # base[q]
    /\ total0 > 0

\* --------------------------------------------------- properties: agents
AllAgents == { cells[k] : k \in 1..Len(cells) }
               \cup { cells_to_add[k] : k \in 1..Len(cells_to_add) }

\* an agent that has been Differentiated in an earlier state, or descends from
\* one that was when it divided, is Differentiated
NeverReverts == \A c \in AllAgents : c.h_was_diff => c.state = "Differentiated"

\* C5 (as stated): a Pluripotent agent that starts with differentiation counter
\* 0 and whose fate marker booleans[2] is 1 at every update is Pluripotent
\* after fewer than pluri_to_diff updates, becomes Differentiated at exactly
\* the pluri_to_diff-th update with motion true, and no Differentiated agent
\* or descendant is Pluripotent again.
C5_DifferentiatesAtUpdateCount ==
    /\ \A c \in AllAgents :
          c.h_tracked =>
             /\ c.h_updates < pluri_to_diff => c.state = "Pluripotent"
             /\ c.h_updates >= pluri_to_diff =>
                   /\ c.state = "Differentiated"
                   /\ c.h_diff_update = pluri_to_diff
                   /\ c.h_diff_motion
    /\ NeverReverts

\* C5 (amended): the same, counting only the updates made in steps with
\* current_step >= dox_step, the only ones in which update_cell advances the
\* differentiation counter.
C5_DifferentiatesAtCycleCount ==
    /\ \A c \in AllAgents :
          c.h_tracked =>
             /\ c.h_cycles < pluri_to_diff => c.state = "Pluripotent"
             /\ c.h_cycles >= pluri_to_diff =>
                   /\ c.state = "Differentiated"
                   /\ c.h_diff_cycle = pluri_to_diff
                   /\ c.h_diff_motion
    /\ NeverReverts

\* the marker was held for pluri_to_diff updates after induction and the
\* agent differentiated at the last of them, later than its pluri_to_diff-th
\* update
C5_Witness ==
    \E c \in AllAgents :
        /\ c.h_tracked /\ c.state = "Differentiated"
        /\ c.h_cycles = pluri_to_diff /\ c.h_diff_cycle = pluri_to_diff
        /\ c.h_updates > pluri_to_diff

\* C7: every child divide() appends to the addition queue has
\* 0 <= location[axis] <= size[axis] on all three axes.
C7_ChildInBounds ==
    \A k \in 1..Len(cells_to_add) : \A a \in Axes :
        0 <= cells_to_add[k].location[a] /\ cells_to_add[k].location[a] <= size[a]

\* a child was queued after divide() had drawn an out-of-bounds point first
C7_Witness ==
    \E k \in 1..Len(cells_to_add) : cells_to_add[k].h_resampled

\* C8: division placement always terminates: a divide() that is resampling
\* eventually stops resampling (child placed or a fatal error reported).
C8_PlacementTerminates == (stage = "placing") ~> (stage # "placing")

\* the halved value of a counter <<n, k>> equals another counter
SameValue(a, b) == a[1] * (2 ^ b[2]) = b[1] * (2 ^ a[2])

\* C6: whenever an agent update performs a division, the parent's division
\* counter at the end of that update is exactly half of its value at the
\* start of that update, for Pluripotent and Differentiated parents.
C6_CounterHalved ==
    \A k \in 1..Len(cells) :
        (cells[k].h_div_before # <<>> /\ cells[k].h_div_after # <<>>) =>
            SameValue(cells[k].h_div_after, Half(cells[k].h_div_before))

\* --------------------------------------------------- properties: death
\* C12: over the kill_cell calls on an agent whose death counter started at 0,
\* the counter equals the number of most recent consecutive calls in which the
\* agent had fewer than lonely_cell neighbours; a call queues the agent for
\* removal exactly when the agent is Pluripotent and the counter has reached
\* death_thresh, so a Differentiated agent is never queued.
C12_DeathCounterIsLonelyRun ==
    \A k \in 1..Len(cells) :
        cells[k].h_death_start = 0 =>
            /\ cells[k].death_counter = cells[k].h_lonely
            /\ cells[k].h_killed =>
                  (cells[k].h_kill_queued <=>
                      (/\ cells[k].h_kill_state = "Pluripotent"
                       /\ cells[k].death_counter >= death_thresh))
            /\ cells[k].h_kill_state = "Differentiated" => ~cells[k].h_kill_queued

\* an agent queued by its latest call next to one whose counter a call with
\* enough neighbours has just reset: the queued one reached death_thresh
C12_Witness ==
    /\ \E k \in 1..Len(cells) :
          /\ cells[k].h_death_start = 0 /\ cells[k].h_kill_queued
          /\ cells[k].death_counter = death_thresh
    /\ \E k \in 1..Len(cells) :
          /\ cells[k].h_death_start = 0 /\ cells[k].h_killed
          /\ cells[k].death_counter = 0 /\ cells[k].h_updates > 0

\* --------------------------------------------- properties: signal grid
GridInBounds ==
    \A pt \in DOMAIN diffuse_values : diffuse_values[pt] \in 0..maximum

\* a step that changes the grid is an update of the agent at cell_i and
\* changes only the grid cell at that agent's mapped index, by +1 or -1
OneGridWrite ==
    diffuse_values' # diffuse_values =>
        /\ stage \in {"update", "placing"} /\ cell_i \in 1..Len(cells)
        /\ \A pt \in DOMAIN diffuse_values :
              IF pt = GridPoint(cells[cell_i].location)
              THEN diffuse_values'[pt] - diffuse_values[pt] \in {-1, 1}
              ELSE diffuse_values'[pt] = diffuse_values[pt]

\* C13: starting from a grid of integers in [0, maximum], after any sequence
\* of update_cell calls by any agents every grid cell is still in
\* [0, maximum], and a single update_cell changes only the grid cell at the
\* agent's mapped index, by +1, 0 or -1 in total.
C13_GridStaysInBounds == []GridInBounds /\ [][OneGridWrite]_vars

\* one agent's latest update found its grid cell at maximum while it was
\* producing and left it at maximum, another agent's lowered its cell by one
C13_Witness ==
    /\ \E k \in 1..Len(cells) :
          /\ cells[k].h_grid # <<>>
          /\ cells[k].h_grid[1] = maximum /\ cells[k].h_grid[2] = 1
          /\ cells[k].h_grid[3] = maximum
    /\ \E k \in 1..Len(cells) :
          /\ cells[k].h_grid # <<>>
          /\ cells[k].h_grid[3] = cells[k].h_grid[1] - 1

\* -------------------------------------------- properties: registration
\* C14: after any sequence of cell_type and cell_arrays calls, in any order,
\* every registered per-agent array has first dimension number_cells and
\* both graphs have exactly number_cells vertices.
C14_ContainersInLockstep ==
    ~setup_raised =>
        /\ \A k \in 1..Len(cell_array_names) :
              /\ cell_array_names[k] \in DOMAIN array_shape
              /\ array_shape[cell_array_names[k]][1] = number_cells
        /\ \A g \in graph_names : graph_vertices[g] = number_cells

\* ------------------------------------------- properties: the step loop
\* the stages of a step among the calls of the loop body
Stages ==
    { "update_diffusion", "check_neighbors", "nearest_diff", "cell_death",
      "cell_diff_surround", "cell_motility", "update_cells", "update_cell_queue",
      "handle_movement" }

IsStage(call) == call \in Stages

\* the stages run so far in the current step
StageTrace == SelectSeq(trace, IsStage)

IsPrefix(t, order) == Len(t) <= Len(order) /\ t = SubSeq(order, 1, Len(t))

\* C15 (as stated): in every step the stages run one after another in the
\* order neighbor graph rebuild, nearest-agent classification, agent updates
\* (death, differentiation, motility, update, queue processing), graph
\* rebuild, force computation and integration, and the diffusion-field
\* update is the last stage, executed after integration.
C15_DiffusionLast ==
    IsPrefix(StageTrace,
             << "check_neighbors", "nearest_diff", "cell_death", "cell_diff_surround",
                "cell_motility", "update_cells", "update_cell_queue",
                "check_neighbors", "handle_movement", "update_diffusion" >>)

\* C15 (amended): in every step the diffusion-field update is the first
\* stage, executed before the neighbor graph rebuild, and the other stages
\* follow one after another in the stated order, force computation and
\* integration being the last stage of the step.
C15_DiffusionFirst ==
    IsPrefix(StageTrace,
             << "update_diffusion", "check_neighbors", "nearest_diff", "cell_death",
                "cell_diff_surround", "cell_motility", "update_cells",
                "update_cell_queue", "check_neighbors", "handle_movement" >>)

\* a step after the first has run all its stages
C15_Witness ==
    /\ run_pc = Len(LoopBody) + 1 /\ Len(StageTrace) = 10
    /\ current_step = end_step /\ current_step > 1

\* --------------------------------------- properties: diffusion timing
RECURSIVE SumSeq(_)
SumSeq(q) == IF q = <<>> THEN 0 ELSE Head(q) + SumSeq(Tail(q))

MacroStepDone == step_i = steps

\* C20: one macro diffusion step applies floor(step_dt / diffuse_dt)
\* sub-steps of the full diffuse_dt followed by exactly one sub-step with the
\* remainder, so the time increments applied by update_diffusion_jit sum to
\* step_dt exactly, whether or not diffuse_dt divides step_dt.
C20_SubStepsSumToMacroStep ==
    MacroStepDone =>
        /\ Len(dts) = (step_dt \div diffuse_dt) + 1
        /\ \A k \in 1..(Len(dts) - 1) : dts[k] = diffuse_dt
        /\ dts[Len(dts)] = step_dt % diffuse_dt
        /\ SumSeq(dts) = step_dt

\* a macro step the sub-step does not divide has run two full sub-steps and
\* the remainder
C20_Witness ==
    /\ MacroStepDone
    /\ step_dt % diffuse_dt # 0
    /\ Len(dts) = 3

\* ---------------------------------------------------------------- C21
\* the agents other than the focus in the 27 bins around it, within the
\* search distance, that belong to category k
InNeighbourhood(focus, c) ==
    \A a \in Axes : bin_locations[c][a] - bin_locations[focus][a] \in {-1, 0, 1}

InReach(focus, k) ==
    { c \in Agents \ {focus} :
        /\ InNeighbourhood(focus, c)
        /\ Dist2(locations[c], locations[focus]) <= distance * distance
        /\ IF k = "diff" THEN if_diff[c]
           ELSE IF k = "gata6" THEN ~if_diff[c] /\ gata6[c] > nanog[c]
           ELSE ~if_diff[c] /\ gata6[c] < nanog[c] }

NearestOutput(focus, k) ==
    IF k = "diff" THEN nearest_diff[focus]
    ELSE IF k = "gata6" THEN nearest_gata6[focus]
    ELSE nearest_nanog[focus]

\* C21: for every focus agent whose work item has run and each of the three
\* categories, the output is -1 exactly when no other agent of the category
\* in the 27-bin neighbourhood is within the search distance; otherwise it
\* is an agent of that set at minimal distance from the focus.  A
\* non-differentiated agent with gata6 = nanog is in none of the sets, so it
\* is never an output.
C21_NearestPerCategory ==
    kernel = "nearest" =>
        \A focus \in scanned : \A k \in Categories :
            LET out == NearestOutput(focus, k)
                S   == InReach(focus, k)
            IN  /\ (out = -1) <=> (S = {})
                /\ out # -1 =>
                     /\ out \in S
                     /\ \A c \in S : Dist2(locations[out], locations[focus])
                                       <= Dist2(locations[c], locations[focus])
                /\ out \in Agents =>
                     ~(~if_diff[out] /\ gata6[out] = nanog[out])

\* a finished search in which one focus agent has a nearest agent in a
\* category with a farther agent of the same category in reach, no agent of
\* another category in reach, and an undecided agent (gata6 = nanog) closer
\* than the one it outputs
C21_Witness ==
    /\ kernel = "nearest"
    /\ scanned = Agents
    /\ \E focus \in Agents :
        /\ nearest_gata6[focus] # -1
        /\ nearest_diff[focus] = -1
        /\ \E c \in Agents \ {focus} :
              /\ ~if_diff[c] /\ gata6[c] = nanog[c]
              /\ Dist2(locations[c], locations[focus])
                   < Dist2(locations[nearest_gata6[focus]], locations[focus])

\* ---------------------------------------------------------------- C22
\* update_cell is about to run on a non-moving Differentiated agent with at
\* least contact_inhibit neighbours
BlockedUpdate ==
    /\ AtCell("update")
    /\ ~cells[cell_i].motion
    /\ cells[cell_i].state = "Differentiated"
    /\ num_neighbors[cell_i] >= contact_inhibit

\* the step neither queues a child nor enters the loop of divide()
NoChildQueued ==
    /\ Len(cells_to_add') = Len(cells_to_add)
    /\ stage' # "placing"

\* C22 as stated: an update of a non-moving Differentiated agent with
\* neighbour count >= contact_inhibit queues no child and leaves the
\* division counter unchanged, whatever the counter is.
C22_BlockedCounterUnchanged ==
    [][BlockedUpdate =>
          /\ NoChildQueued
          /\ cells'[cell_i].div_counter = cells[cell_i].div_counter]_vars

\* C22 amended: such an update queues no child; the division counter is
\* unchanged when it has reached diff_div_thresh and grows by one below it.
C22_BlockedNeverDivides ==
    [][BlockedUpdate =>
          /\ NoChildQueued
          /\ cells'[cell_i].div_counter =
                IF AtLeast(cells[cell_i].div_counter, diff_div_thresh)
                THEN cells[cell_i].div_counter
                ELSE PlusOne(cells[cell_i].div_counter)]_vars

\* the updates of a step are over; a Differentiated agent that is not moving
\* (so it was Differentiated and not moving when it was updated) has
\* contact_inhibit neighbours and a division counter past the threshold
C22_Witness ==
    /\ stage = "queue"
    /\ \E k \in 1..Len(cells) :
          /\ cells[k].state = "Differentiated"
          /\ ~cells[k].motion
          /\ num_neighbors[k] >= contact_inhibit
          /\ AtLeast(cells[k].div_counter, diff_div_thresh)
          /\ cells[k].h_updates >= 1
          /\ cells_to_add = <<>>

\* ---------------------------------------------------------------- C23
\* h_evals of an agent holds, for its last boolean_thresh updates with the
\* pathway active, whether the update called boolean_function.
\* C23: of every boolean_thresh consecutive updates of one agent with the
\* pathway active, exactly one evaluates the regulatory network.
C23_OneEvaluationPerWindow ==
    \A k \in 1..Len(cells) :
        Len(cells[k].h_evals) = boolean_thresh =>
            Cardinality({ i \in 1..boolean_thresh : cells[k].h_evals[i] }) = 1

\* ---------------------------------------------------------------- C24
\* C24: a call of motility() on an agent with at least one neighbour in
\* neighbor_graph ends with the motion flag false and the force accumulator
\* as it was, whatever the markers and the state of the agent; and a call on
\* an agent that is not moving adds no motility force and leaves it not
\* moving.
C24_NeighboursStopMotion ==
    [][AtCell("motility") /\ (num_neighbors[cell_i] >= 1 \/ ~cells[cell_i].motion) =>
          /\ stage' # "error"
          /\ ~cells'[cell_i].motion
          /\ cells'[cell_i].force = cells[cell_i].force]_vars

\* the motility stage is over; an agent that became Differentiated, and so
\* moving, in its latest update has neighbours and is not moving any more
C24_Witness ==
    /\ stage = "update" /\ cell_i = 1
    /\ \E k \in 1..Len(cells) :
          /\ num_neighbors[k] >= 1
          /\ cells[k].h_diff_update >= 1
          /\ cells[k].h_diff_update = cells[k].h_updates
          /\ cells[k].h_diff_motion
          /\ ~cells[k].motion
          /\ cells[k].force = 0

\* ---------------------------------------------------------------- C25
\* motility() is about to run on a moving Pluripotent agent with the
\* motion-enabling marker set and no neighbour to stop it
MovingMarked ==
    /\ AtCell("motility")
    /\ cells[cell_i].motion
    /\ num_neighbors[cell_i] = 0
    /\ cells[cell_i].state = "Pluripotent"
    /\ Bool(cells[cell_i], heap, 2) = 1

\* the differentiated agent nearest to agent k, the first of diff_cells among
\* equally near ones
NearestDiffCell(k) ==
    CHOOSE n \in DiffCells :
        \A j \in DiffCells :
            \/ Dist2(cells[n].location, cells[k].location)
                 < Dist2(cells[j].location, cells[k].location)
            \/ /\ Dist2(cells[n].location, cells[k].location)
                    = Dist2(cells[j].location, cells[k].location)
               /\ n <= j

\* C25: for such an agent motility() completes without error and adds one
\* vector of magnitude motility_force: toward the nearest differentiated
\* agent when chemotactic mode is on and there is at least one
\* differentiated agent, in a random direction otherwise.
C25_MotilityCompletes ==
    [][MovingMarked =>
          /\ stage' # "error"
          /\ cells'[cell_i].force = cells[cell_i].force + 1
          /\ cells'[cell_i].h_toward =
                IF guye_move /\ DiffCells # {} THEN NearestDiffCell(cell_i)
                ELSE -1]_vars

\* ---------------------------------------------------------------- C26
\* the regulatory vector of an agent: the array its booleans field refers to
VectorOf(c, h) == h[c.booleans]

\* a step inside one agent's update_cell (its divide() loop included)
UpdateStep == stage \in {"update", "placing"} /\ cell_i \in 1..Len(cells)

RuleOf(k, x) ==
    CASE k = 1 -> Rule1(x)
      [] k = 2 -> Rule2(x)
      [] k = 3 -> Rule3(x)
      [] k = 4 -> Rule4(x)
      [] k = 5 -> Rule5(x)

\* an update of the agent at cell_i that runs the pathway, calls
\* boolean_function and does not differentiate
EvaluatingStep ==
    /\ UpdateStep
    /\ cells'[cell_i].h_cycles = cells[cell_i].h_cycles + 1
    /\ cells'[cell_i].h_evals # <<>>
    /\ cells'[cell_i].h_evals[Len(cells'[cell_i].h_evals)]
    /\ cells'[cell_i].state = cells[cell_i].state

\* C27: an evaluation keeps the length of the regulatory vector, writes only
\* values in 0..num_states-1, and stores the value of rule k (k = 2..5),
\* computed from the values before the evaluation, at the position the next
\* evaluation reads x_k from: x2 is booleans[0], ..., x5 is booleans[3], the
\* positions differentiate() and the marker tests use.
C27_FixedMapping ==
    [][EvaluatingStep =>
          LET b  == VectorOf(cells[cell_i], heap)
              b1 == VectorOf(cells'[cell_i], heap')
          IN  /\ Len(b1) = Len(b)
              /\ \A i \in 1..Len(b1) : b1[i] \in 0..(num_states - 1)
              /\ \E x1 \in 0..1 :
                    \A k \in 2..5 :
                        b1[k - 1] = RuleOf(k, <<x1, b[1], b[2], b[3], b[4]>>) % num_states]_vars

\* ---------------------------------------------------------------- C28
\* the agent at index k of the list goes from Pluripotent to Differentiated
Turns(k) ==
    /\ cells[k].state = "Pluripotent"
    /\ cells'[k].state = "Differentiated"

\* the value of booleans[2] that line 237 of the update of the agent at
\* cell_i tests: the stored one, or the one boolean_function has just
\* computed for some value of fgf4_bool
TestedMarkerIsOne ==
    LET b    == VectorOf(cells[cell_i], heap)
        last == cells'[cell_i].h_evals
    IN  IF last # <<>> /\ last[Len(last)]
        THEN \E fgf4_bool \in 0..1 : BooleanFunction(b, fgf4_bool)[3] = 1
        ELSE b[3] = 1

\* the agents a sequence of agents holds, by state and counter
StatesOf(cs) == { <<cs[k].state, cs[k].diff_counter>> : k \in 1..Len(cs) }

\* C28: an agent goes from Pluripotent to Differentiated only in its own
\* update_cell, in a step with current_step >= dox_step, with booleans[2]
\* equal to 1 at the test and a differentiation counter that the update has
\* just raised by one to at least pluri_to_diff.  No other operation
\* changes a state: kill_cell, diff_surround (which only raises the
\* counter), motility, and the merge of the queues, which moves agents
\* without changing them.
C28_DifferentiationOnlyInUpdate ==
    [][IF stage = "queue"
       THEN StatesOf(cells') \subseteq StatesOf(cells) \cup StatesOf(cells_to_add)
       ELSE \A k \in 1..Len(cells) :
               Turns(k) =>
                  /\ UpdateStep /\ k = cell_i
                  /\ current_step >= dox_step
                  /\ TestedMarkerIsOne
                  /\ cells'[k].diff_counter = cells[k].diff_counter + 1
                  /\ cells'[k].diff_counter >= pluri_to_diff]_vars

\* an agent with the fate marker at 0 is still Pluripotent after an update,
\* its differentiation counter raised past pluri_to_diff by diff_surround
C28_Witness ==
    /\ stage = "queue"
    /\ \E k \in 1..Len(cells) :
          /\ cells[k].state = "Pluripotent"
          /\ VectorOf(cells[k], heap)[3] = 0
          /\ cells[k].diff_counter > pluri_to_diff
          /\ cells[k].h_cycles >= 1

\* ---------------------------------------------------------------- C29
\* the work item of edge e of the force kernel has ended
ItemEnded(e) == item_pc[e] = ItemDone

\* C29: every edge of the list the force kernel is given was created by
\* jkr_neighbors_cpu with overlap >= 0, and with the agents where they were
\* at creation the force kernel never marks it for removal: the edge keeps
\* delete_edges at 0 before, during and after its work item.
C29_NewBondNotRuptured ==
    phase = "forces" =>
        \A e \in Edges :
            /\ Overlapping(Cell1(e), Cell2(e))
            /\ delete_edges[e] = 0

\* the force kernel has finished and one of its edges joins two agents that
\* just touch (overlap 0), another one agents that overlap
C29_Witness ==
    /\ phase = "forces"
    /\ \A e \in Edges : ItemEnded(e)
    /\ \E e \in Edges : Overlap(Cell1(e), Cell2(e)) = 0
    /\ \E e \in Edges : Overlap(Cell1(e), Cell2(e)) > 0

\* ---------------------------------------------------------------- C30
\* C30: once cell_arrays has raised for a tuple whose length is neither 2
\* nor 3, cell_array_names lists exactly the names of the arrays that exist
\* as instance variables: the name of the rejected tuple was not added.
C30_RejectedTupleNotRegistered ==
    setup_raised =>
        { cell_array_names[i] : i \in 1..Len(cell_array_names) } = DOMAIN array_shape

====
